---- MODULE Spec2Model ----
(***************************************************************************)
(* Pandora: comparison of two embeddings (PCA objects).                    *)
(*                                                                         *)
(* The model covers src/pandora/pca.py (class PCA) and                     *)
(* src/pandora/pca_comparison.py (filter_samples, the reconciliation of    *)
(* the sample sets, match_and_transform and class PCAComparison).          *)
(*                                                                         *)
(* Numbers.  A float is modelled as a fixed-point integer: the integer v   *)
(* stands for the value v / Unit.  A result that the code computes with a  *)
(* rounded floating-point operation is rounded to the nearest multiple of  *)
(* 1 / Unit here.  Sample ids are the integers 1..MaxId, ordered as the    *)
(* strings of the code are ordered.                                        *)
(*                                                                         *)
(* Exceptions.  A call that raises is modelled by its outcome: a record    *)
(* with ok = FALSE, the exception class (exc) and the place that raised    *)
(* it (why).  The interpreter runs with assertions enabled (the default).  *)
(***************************************************************************)
EXTENDS Integers, Sequences, FiniteSets, TLC

\* ------------------------------------------------------------------ bounds
\* sample ids are 1..MaxId
MaxId == 3
\* the sample count of the embeddings of the clustering inputs
MaxSamples == 5
\* the number of distinct population labels of the clustering inputs
MaxPops == 5
\* an explicit kmeans_k is one of 1..MaxK
MaxK == 3
\* n_pcs of the PCA constructor's inputs is one of 0..MaxPcs
MaxPcs == 2
\* the column count of the PCA constructor's input table is at most MaxCols
MaxCols == 4
\* fixed-point resolution: the integer v stands for v / Unit
Unit == 100
\* the states of the global random generator are 0..MaxSeed
MaxSeed == 1
\* the embeddings of one population have up to MaxLarge samples
MaxLarge == 100

\* the largest number of bootstrap replicates
MaxBootstraps == 3

\* the verbosities -MaxVerbosity .. MaxVerbosity
MaxVerbosity == 3

\* the coordinate values the input embeddings take along PC0
CoordValues == {0, 1, 2}

\* ----------------------------------------------------------------- helpers
Abs(x) == IF x < 0 THEN -x ELSE x

Sign(x) == IF x < 0 THEN -1 ELSE 1

Min(a, b) == IF a <= b THEN a ELSE b

\* a / b rounded to the nearest integer (b > 0), halves away from zero
RoundDiv(a, b) == Sign(a) * ((2 * Abs(a) + b) \div (2 * b))

RECURSIVE SqrtBetween(_, _, _)
SqrtBetween(n, lo, hi) ==
    IF lo >= hi THEN lo
    ELSE LET mid == (lo + hi + 1) \div 2
         IN  IF mid * mid <= n THEN SqrtBetween(n, mid, hi)
             ELSE SqrtBetween(n, lo, mid - 1)

\* floor(sqrt(n)) for 0 <= n
ISqrt(n) == SqrtBetween(n, 0, Min(n, 46340))

\* t / sqrt(n) rounded to the nearest integer, for t >= 0 and n > 0
RoundSqrtDiv(t, n) == (ISqrt((4 * t * t) \div n) + 1) \div 2

RECURSIVE SumSeq(_)
SumSeq(s) == IF s = <<>> THEN 0 ELSE Head(s) + SumSeq(Tail(s))

Range(s) == {s[i] : i \in DOMAIN s}

\* a variant of SelectRows: the rows of s at the positions in keep
RECURSIVE SelectRowsAt(_, _)
SelectRowsAt(s, keep) ==
    IF s = <<>> THEN <<>>
    ELSE IF Len(s) \in keep
         THEN Append(SelectRowsAt(SubSeq(s, 1, Len(s) - 1), keep), s[Len(s)])
         ELSE SelectRowsAt(SubSeq(s, 1, Len(s) - 1), keep)

\* the rows of s whose sample id is in keep, in their order
RECURSIVE SelectRows(_, _)
SelectRows(s, keep) ==
    IF s = <<>> THEN <<>>
    ELSE IF Head(s).sample_id \in keep
         THEN <<Head(s)>> \o SelectRows(Tail(s), keep)
         ELSE SelectRows(Tail(s), keep)

\* ------------------------------------------------------------- exceptions
Raise(exc, why) == [ok |-> FALSE, exc |-> exc, why |-> why]

Return(v) == [ok |-> TRUE, value |-> v]

\* ---------------------------------------------------------------- class PCA
\* Column names of a table: <<"sample_id", 0>>, <<"population", 0>>,
\* <<"PC", i>> for the column PC{i}, <<"other", 0>> for any other column.
SampleIdCol == <<"sample_id", 0>>

PopulationCol == <<"population", 0>>

PCCol(i) == <<"PC", i>>

OtherCol == <<"other", 0>>

\* the column header _numpy_to_pca_dataframe builds: PC0.., sample_id, population
PCAColumns(n_pcs) == [i \in 1..n_pcs |-> PCCol(i - 1)] \o <<SampleIdCol, PopulationCol>>

\* a row put into rows that ascend by sample id, behind the rows of its id
RECURSIVE InsertRow(_, _)
InsertRow(sorted, row) ==
    IF sorted = <<>> THEN <<row>>
    ELSE IF Head(sorted).sample_id <= row.sample_id
         THEN <<Head(sorted)>> \o InsertRow(Tail(sorted), row)
         ELSE <<row>> \o sorted

\* a variant of SortBySampleId: the rows in descending order of the sample id
RECURSIVE SortDescending(_)
SortDescending(rows) ==
    IF rows = <<>> THEN <<>>
    ELSE LET n == Len(rows)
             m == CHOOSE i \in 1..n : \A j \in 1..n : rows[j].sample_id <= rows[i].sample_id
         IN  <<rows[m]>> \o SortDescending([i \in 1..(n - 1) |->
                                              IF i < m THEN rows[i] ELSE rows[i + 1]])

\* a variant of SortBySampleId that leaves the rows in the order of the table
KeepOrder(rows) == rows

\* pca_data.sort_values(by="sample_id").reset_index(drop=True): an insertion
\* sort, stable as numpy's sort of a short array is
RECURSIVE SortBySampleId(_)
SortBySampleId(rows) ==
    IF rows = <<>> THEN <<>>
    ELSE LET n == Len(rows)
         IN  InsertRow(SortBySampleId(SubSeq(rows, 1, n - 1)), rows[n])

\* PCA._get_pca_data_numpy: the columns PC0..PC(n_pcs-1) of every row
GetPcaDataNumpy(rows, n_pcs) ==
    [i \in 1..Len(rows) |-> [j \in 1..n_pcs |-> rows[i].pc[j]]]

\* the attributes PCA.__init__ sets once its checks have passed; sorted is
\* the table's rows in ascending order of the sample id
PCAAttributes(columns, sorted, explained_variances, n_pcs) ==
    [n_pcs |-> n_pcs,
     explained_variances |-> explained_variances,
     pca_data |-> [columns |-> columns, rows |-> sorted],
     pc_vectors |-> GetPcaDataNumpy(sorted, n_pcs)]

\* a variant of PCAInit that accepts a table of any number of columns
PCAInitAnyWidth(pca_data, explained_variances, n_pcs) ==
    IF explained_variances.ndim # 1
    THEN Raise("PandoraException", "explained_variances_ndim")
    ELSE IF Len(explained_variances.values) # n_pcs
    THEN Raise("PandoraException", "explained_variances_shape")
    ELSE IF SampleIdCol \notin Range(pca_data.columns)
    THEN Raise("PandoraException", "sample_id_column")
    ELSE IF PopulationCol \notin Range(pca_data.columns)
    THEN Raise("PandoraException", "population_column")
    ELSE IF ~ (\A i \in 1..n_pcs : PCCol(i - 1) \in Range(pca_data.columns))
    THEN Raise("PandoraException", "pc_columns")
    ELSE Return(PCAAttributes(pca_data.columns, SortBySampleId(pca_data.rows),
                              explained_variances, n_pcs))

\* PCA.__init__(pca_data, explained_variances, n_pcs).  pca_data is a table
\* [columns, rows]; explained_variances is an array [ndim, values].
PCAInit(pca_data, explained_variances, n_pcs) ==
    IF explained_variances.ndim # 1
    THEN Raise("PandoraException", "explained_variances_ndim")
    ELSE IF Len(explained_variances.values) # n_pcs
    THEN Raise("PandoraException", "explained_variances_shape")
    ELSE IF SampleIdCol \notin Range(pca_data.columns)
    THEN Raise("PandoraException", "sample_id_column")
    ELSE IF PopulationCol \notin Range(pca_data.columns)
    THEN Raise("PandoraException", "population_column")
    ELSE IF Len(pca_data.columns) # n_pcs + 2
    THEN Raise("PandoraException", "n_columns")
    ELSE IF ~ (\A i \in 1..n_pcs : PCCol(i - 1) \in Range(pca_data.columns))
    THEN Raise("PandoraException", "pc_columns")
    ELSE Return(PCAAttributes(pca_data.columns, SortBySampleId(pca_data.rows),
                              explained_variances, n_pcs))

\* the sample_id column of a PCA's table
SampleIds(pca) == [i \in 1..Len(pca.pca_data.rows) |-> pca.pca_data.rows[i].sample_id]

\* the population column of a PCA's table
Populations(pca) == [i \in 1..Len(pca.pca_data.rows) |-> pca.pca_data.rows[i].population]

\* pca.pc_vectors.shape
Shape(pca) == <<Len(pca.pc_vectors), pca.n_pcs>>

\* pca.pca_data.shape[0]
NSamples(pca) == Len(pca.pca_data.rows)

\* ------------------------------------------------- sample reconciliation
\* filter_samples(pca, samples_to_keep): the rows whose id is in the list
FilterSamples(pca, samples_to_keep) ==
    PCAInit([columns |-> pca.pca_data.columns,
             rows |-> SelectRows(pca.pca_data.rows, Range(samples_to_keep))],
            pca.explained_variances, pca.n_pcs)

\* a variant of CheckSampleClipping that warns up to 100% in place of 80%
CheckSampleClippingAll(before_clipping, after_clipping) ==
    IF 10 * NSamples(after_clipping) <= 10 * NSamples(before_clipping)
    THEN << [before |-> NSamples(before_clipping), after |-> NSamples(after_clipping)] >>
    ELSE << >>

\* _check_sample_clipping: the warnings it emits (none or one), each with the
\* sample counts before and after.  n_after <= 0.8 * n_before, in tenths.
CheckSampleClipping(before_clipping, after_clipping) ==
    IF 10 * NSamples(after_clipping) <= 8 * NSamples(before_clipping)
    THEN << [before |-> NSamples(before_clipping), after |-> NSamples(after_clipping)] >>
    ELSE << >>

\* the ids of a set as a list in descending order
RECURSIVE Descending(_)
Descending(S) ==
    IF S = {} THEN <<>>
    ELSE LET m == CHOOSE x \in S : \A y \in S : y <= x
         IN  <<m>> \o Descending(S \ {m})

\* sorted(S) for a set of sample ids
RECURSIVE Sorted(_)
Sorted(S) ==
    IF S = {} THEN <<>>
    ELSE LET m == CHOOSE x \in S : \A y \in S : x <= y
         IN  <<m>> \o Sorted(S \ {m})

\* a variant of CheckClipped in which a sample-loss warning ends the call
CheckClippedFatal(comparable, reference, comparable_clipped, reference_clipped) ==
    IF ~ comparable_clipped.ok THEN comparable_clipped
    ELSE IF ~ reference_clipped.ok THEN reference_clipped
    ELSE IF Shape(comparable_clipped.value) # Shape(reference_clipped.value)
    THEN Raise("AssertionError", "clipped_shapes")
    ELSE IF CheckSampleClipping(comparable, comparable_clipped.value)
            \o CheckSampleClipping(reference, reference_clipped.value) # <<>>
    THEN Raise("UserWarning", "sample_loss")
    ELSE Return([comparable |-> comparable_clipped.value,
                 reference |-> reference_clipped.value,
                 warnings |-> <<>>])

\* _clip_missing_samples_for_comparison from its assertion on: the clipped
\* PCAs and the warnings emitted, or the AssertionError
CheckClipped(comparable, reference, comparable_clipped, reference_clipped) ==
    IF ~ comparable_clipped.ok THEN comparable_clipped
    ELSE IF ~ reference_clipped.ok THEN reference_clipped
    ELSE IF Shape(comparable_clipped.value) # Shape(reference_clipped.value)
    THEN Raise("AssertionError", "clipped_shapes")
    ELSE Return([comparable |-> comparable_clipped.value,
                 reference |-> reference_clipped.value,
                 warnings |->
                    CheckSampleClipping(comparable, comparable_clipped.value)
                    \o CheckSampleClipping(reference, reference_clipped.value)])

\* _clip_missing_samples_for_comparison once shared_samples is computed
ClipTo(comparable, reference, shared_samples) ==
    CheckClipped(comparable, reference,
                 FilterSamples(comparable, shared_samples),
                 FilterSamples(reference, shared_samples))

\* _clip_missing_samples_for_comparison(comparable, reference)
ClipMissingSamplesForComparison(comparable, reference) ==
    ClipTo(comparable, reference,
           Sorted(Range(SampleIds(comparable)) \cap Range(SampleIds(reference))))

\* ------------------------------------------------------------- Procrustes
\* scipy.spatial.procrustes(data1, data2) as match_and_transform calls it.
\* Centring: n * (x - mean), an integer; the factor n cancels in the
\* normalisation to unit Frobenius norm.
Centered(data, n_cols) ==
    [i \in 1..Len(data) |->
        [j \in 1..n_cols |->
            Len(data) * data[i][j] - SumSeq([k \in 1..Len(data) |-> data[k][j]])]]

\* the sum over all entries of the products a[i][j] * b[i][j]
Dot(a, b, n_cols) ==
    SumSeq([i \in 1..Len(a) |-> SumSeq([j \in 1..n_cols |-> a[i][j] * b[i][j]])])

\* the sum over all entries of (a[i][j] - b[i][j])^2
SumSquaredDiff(a, b, n_cols) ==
    SumSeq([i \in 1..Len(a) |->
        SumSeq([j \in 1..n_cols |-> (a[i][j] - b[i][j]) * (a[i][j] - b[i][j])])])

\* what procrustes returns: mtx1, mtx2 and disparity = sum((mtx1 - mtx2)^2),
\* the disparity at its full resolution 1 / (Unit * Unit)
ProcrustesResult(mtx1, mtx2, n_cols) ==
    Return([mtx1 |-> mtx1, mtx2 |-> mtx2,
            disparity |-> SumSquaredDiff(mtx1, mtx2, n_cols)])

\* procrustes on the centred matrices a and b with their squared norms and
\* their cross-covariance p.  mtx1 is a at unit norm; mtx2 is b at unit norm,
\* rotated and scaled onto mtx1.  The input embeddings vary along PC0 only,
\* where the rotation of the singular value decomposition is the sign of p
\* and the scale is |p| / (|a| |b|).  Each coordinate is the exact one rounded
\* to 1 / Unit.
ProcrustesNormed(a, b, n_cols, norm1, norm2, p) ==
    IF norm1 = 0 \/ norm2 = 0
    THEN Raise("ValueError", "procrustes_one_point")
    ELSE ProcrustesResult(
            [i \in 1..Len(a) |-> [j \in 1..n_cols |->
                Sign(a[i][j]) * RoundSqrtDiv(Unit * Abs(a[i][j]), norm1)]],
            [i \in 1..Len(b) |-> [j \in 1..n_cols |->
                Sign(b[i][j] * p)
                * RoundSqrtDiv(RoundDiv(Abs(b[i][j] * p) * Unit, norm2), norm1)]],
            n_cols)

\* procrustes on the centred matrices
ProcrustesCentered(a, b, n_cols) ==
    ProcrustesNormed(a, b, n_cols, Dot(a, a, n_cols), Dot(b, b, n_cols), Dot(a, b, n_cols))

\* scipy.spatial.procrustes(data1, data2)
Procrustes(data1, data2, n_cols) ==
    IF Len(data1) = 0 \/ n_cols = 0
    THEN Raise("ValueError", "procrustes_empty")
    ELSE ProcrustesCentered(Centered(data1, n_cols), Centered(data2, n_cols), n_cols)

\* _numpy_to_pca_dataframe(pc_vectors, sample_ids, populations)
NumpyToPcaDataframe(pc_vectors, n_cols, sample_ids, populations) ==
    IF Len(sample_ids) # Len(pc_vectors)
    THEN Raise("PandoraException", "one_sample_id_per_sample")
    ELSE IF Len(populations) # Len(pc_vectors)
    THEN Raise("PandoraException", "one_population_per_sample")
    ELSE Return([columns |-> PCAColumns(n_cols),
                 rows |-> [i \in 1..Len(pc_vectors) |->
                             [sample_id |-> sample_ids[i],
                              population |-> populations[i],
                              pc |-> pc_vectors[i]]]])

\* PCA(pca_data=frame, explained_variances=..., n_pcs=...) for the outcome of
\* _numpy_to_pca_dataframe
PCAOfFrame(frame, explained_variances, n_pcs) ==
    IF ~ frame.ok THEN frame ELSE PCAInit(frame.value, explained_variances, n_pcs)

\* the PCA that match_and_transform builds from a matrix of procrustes and
\* the ids, populations, explained variances and n_pcs of a clipped input
PCAFromNumpy(pc_vectors, source) ==
    PCAOfFrame(NumpyToPcaDataframe(pc_vectors, source.n_pcs,
                                   SampleIds(source), Populations(source)),
               source.explained_variances, source.n_pcs)

\* the return statement of match_and_transform: the tuple it returns
ReturnOfMatchAndTransform(standardized_reference, transformed_comparable, disparity) ==
    <<standardized_reference, transformed_comparable, disparity>>

\* match_and_transform from its last check of the sample ids on
CheckTransformed(standardized_reference, transformed_comparable, disparity, warned) ==
    IF ~ standardized_reference.ok THEN standardized_reference
    ELSE IF ~ transformed_comparable.ok THEN transformed_comparable
    ELSE IF SampleIds(standardized_reference.value)
            # SampleIds(transformed_comparable.value)
    THEN Raise("PandoraException", "sample_ids_mismatch")
    ELSE Return([result |-> ReturnOfMatchAndTransform(standardized_reference.value,
                                                      transformed_comparable.value,
                                                      disparity),
                 warnings |-> warned])

\* match_and_transform after procrustes
Transform(comparable, reference, warned, fit) ==
    IF ~ fit.ok THEN fit
    ELSE CheckTransformed(PCAFromNumpy(fit.value.mtx1, reference),
                          PCAFromNumpy(fit.value.mtx2, comparable),
                          fit.value.disparity, warned)

\* match_and_transform on the clipped comparable and reference
Match(comparable, reference, warned) ==
    IF Len(SampleIds(comparable)) # Len(SampleIds(reference))
    THEN Raise("ValueError", "series_lengths")
    ELSE IF SampleIds(comparable) # SampleIds(reference)
    THEN Raise("PandoraException", "sample_ids_mismatch")
    ELSE IF Shape(comparable) # Shape(reference)
    THEN Raise("PandoraException", "shape_mismatch")
    ELSE IF Shape(comparable)[1] = 0
    THEN Raise("PandoraException", "no_samples")
    ELSE Transform(comparable, reference, warned,
                   Procrustes(reference.pc_vectors, comparable.pc_vectors,
                              reference.n_pcs))

\* an outcome together with the warnings emitted before it: an exception
\* raised after a warning does not take the warning back
Warned(outcome, warned) ==
    IF outcome.ok THEN outcome
    ELSE [ok |-> FALSE, exc |-> outcome.exc, why |-> outcome.why, warnings |-> warned]

\* match_and_transform after the reconciliation of the sample sets
MatchClipped(clipped) ==
    IF ~ clipped.ok THEN Warned(clipped, <<>>)
    ELSE Warned(Match(clipped.value.comparable, clipped.value.reference,
                      clipped.value.warnings),
                clipped.value.warnings)

\* match_and_transform(comparable, reference): the returned tuple and the
\* warnings emitted, or the exception raised
MatchAndTransform(comparable, reference) ==
    MatchClipped(ClipMissingSamplesForComparison(comparable, reference))

\* -------------------------------------------------------------- clustering
\* the number of folds of GridSearchCV's default cross-validation
CvFolds == 5

\* random_state of the KMeans that PCA.cluster builds
KMeansRandomState == 42

\* max_k of PCA.get_optimal_kmeans_k without k_boundaries
MaxKOf(pca) ==
    IF Cardinality(Range(Populations(pca))) > 1
    THEN Cardinality(Range(Populations(pca)))
    ELSE ISqrt(NSamples(pca))

\* min_k of PCA.get_optimal_kmeans_k without k_boundaries
MinKOf(pca) == Min(3, MaxKOf(pca))

\* a variant of KCandidates whose grid includes max_k
KCandidatesInclusive(pca) == MinKOf(pca) .. MaxKOf(pca)

\* param_grid = {"n_components": range(min_k, max_k)}
KCandidates(pca) == MinKOf(pca) .. (MaxKOf(pca) - 1)

\* PCA.get_optimal_kmeans_k(): the outcomes the grid search can have.  The
\* search raises on an empty grid and on fewer samples than folds; the
\* Gaussian mixtures are fitted from an unseeded random start, so the
\* candidate of the best score is any of the candidates.
GetOptimalKmeansK(pca) ==
    IF KCandidates(pca) = {}
    THEN {Raise("ValueError", "empty_param_grid")}
    ELSE IF NSamples(pca) < CvFolds
    THEN {Raise("ValueError", "fewer_samples_than_folds")}
    ELSE {Return(k) : k \in KCandidates(pca)}

\* the state of numpy's global random generator
VARIABLE global_random_state

\* the states of numpy's global random generator
RandomStates == 0..MaxSeed

\* the grid search fits its Gaussian mixtures: it has candidates and folds
SearchFits(pca) == KCandidates(pca) # {} /\ NSamples(pca) >= CvFolds

\* the states the global random generator can be in after
\* get_optimal_kmeans_k: GaussianMixture() has no random_state of its own and
\* draws from the global generator
RandomStateAfterSearch(pca, state) ==
    IF SearchFits(pca) THEN RandomStates ELSE {state}

\* the squared Euclidean distance of two coordinate vectors
Dist2(x, y) == SumSeq([j \in 1..Len(x) |-> (x[j] - y[j]) * (x[j] - y[j])])

RECURSIVE Factorial(_)
Factorial(n) == IF n <= 1 THEN 1 ELSE n * Factorial(n - 1)

\* the labelings of n samples with at most k clusters, clusters numbered in
\* the order of their first sample
RECURSIVE Labelings(_, _)
Labelings(n, k) ==
    IF n = 0 THEN {<<>>}
    ELSE UNION {{Append(l, c) : c \in 1..Min(k, Cardinality(Range(l)) + 1)} :
                l \in Labelings(n - 1, k)}

\* K-Means' objective, the within-cluster sum of squares, times n!
Inertia(data, labels) ==
    SumSeq([i \in 1..Len(data) |->
        SumSeq([j \in 1..Len(data) |->
            IF j > i /\ labels[j] = labels[i]
            THEN (Factorial(Len(data))
                  \div Cardinality({m \in 1..Len(data) : labels[m] = labels[i]}))
                 * Dist2(data[i], data[j])
            ELSE 0])])

\* lexicographic order of two labelings of the same length
RECURSIVE LexLess(_, _)
LexLess(a, b) ==
    IF a = <<>> THEN FALSE
    ELSE IF Head(a) # Head(b) THEN Head(a) < Head(b)
    ELSE LexLess(Tail(a), Tail(b))

\* the least labeling of a set of labelings in lexicographic order
LexMin(S) == CHOOSE x \in S : \A y \in S \ {x} : LexLess(x, y)

\* the i-th labeling (from 0) of a set of labelings in lexicographic order
RECURSIVE Nth(_, _)
Nth(S, i) == IF i = 0 THEN LexMin(S) ELSE Nth(S \ {LexMin(S)}, i - 1)

\* the least of a set of numbers
Least(S) == CHOOSE v \in S : \A w \in S : v <= w

\* the labelings of least inertia among the labelings all
BestLabelings(data, all, least) == {l \in all : Inertia(data, l) = least}

\* the labeling the seed picks among the best ones
PickLabeling(best, random_state) == Nth(best, random_state % Cardinality(best))

\* the fit of KMeans among the labelings all
FitAmong(data, all, random_state) ==
    PickLabeling(BestLabelings(data, all, Least({Inertia(data, l) : l \in all})),
                 random_state)

\* KMeans(random_state, n_clusters, n_init=10).fit(data), then predict(data):
\* the labels of the samples.  The fit is a labeling of least inertia; the
\* seed decides among several of them.
KMeansFitPredict(data, n_clusters, random_state) ==
    IF n_clusters < 1
    THEN Raise("ValueError", "n_clusters")
    ELSE IF Len(data) < n_clusters
    THEN Raise("ValueError", "fewer_samples_than_clusters")
    ELSE Return(FitAmong(data, Labelings(Len(data), n_clusters), random_state))

\* a variant of Cluster without random_state: KMeans then draws its start
\* from the global random generator
ClusterUnseeded(pca, kmeans_k) ==
    KMeansFitPredict(pca.pc_vectors, kmeans_k, global_random_state)

\* PCA.cluster(kmeans_k) followed by predict(pca.pc_vectors)
Cluster(pca, kmeans_k) == KMeansFitPredict(pca.pc_vectors, kmeans_k, KMeansRandomState)

\* the ordered pairs of distinct samples that share a cluster in both labelings
SamePairs(labels_a, labels_b) ==
    Cardinality({q \in (1..Len(labels_a)) \X (1..Len(labels_a)) :
                    /\ q[1] # q[2]
                    /\ labels_a[q[1]] = labels_a[q[2]]
                    /\ labels_b[q[1]] = labels_b[q[2]]})

\* tk / sqrt(pk * qk), and 0.0 for tk = 0
FowlkesMallowsOf(tk, pk, qk) == IF tk = 0 THEN 0 ELSE RoundSqrtDiv(Unit * tk, pk * qk)

\* sklearn.metrics.fowlkes_mallows_score(labels_true, labels_pred)
FowlkesMallowsScore(labels_true, labels_pred) ==
    FowlkesMallowsOf(SamePairs(labels_true, labels_pred),
                     SamePairs(labels_pred, labels_pred),
                     SamePairs(labels_true, labels_true))

\* ------------------------------------------------------ class PCAComparison
\* the attributes PCAComparison.__init__ sets from the outcome of
\* match_and_transform: its tuple is unpacked into comparable, reference,
\* disparity, in this order
Unpack(matched) ==
    IF ~ matched.ok THEN matched
    ELSE Return([self |-> [comparable |-> matched.value.result[1],
                           reference |-> matched.value.result[2],
                           disparity |-> matched.value.result[3],
                           sample_ids |-> SampleIds(matched.value.result[1])],
                 warnings |-> matched.value.warnings])

\* PCAComparison.__init__(comparable, reference): the attributes of the new
\* object and the warnings emitted, or the exception raised
PCAComparisonInit(comparable, reference) ==
    Unpack(MatchAndTransform(comparable, reference))

\* np.sqrt(x) for x in 1 / Unit^2: nan (with a RuntimeWarning) for x < 0
NpSqrt(x) ==
    IF x < 0 THEN [nan |-> TRUE, v |-> 0]
    ELSE [nan |-> FALSE, v |-> (ISqrt(4 * x) + 1) \div 2]

\* PCAComparison.compare(): np.sqrt(1 - self.disparity)
Compare(self) == NpSqrt(Unit * Unit - self.disparity)

\* compare_clustering from the two fitted models on
ScoreClusterings(self, kmeans_k, k_from, comp_cluster_labels, ref_cluster_labels) ==
    IF ~ comp_cluster_labels.ok THEN comp_cluster_labels
    ELSE IF ~ ref_cluster_labels.ok THEN ref_cluster_labels
    ELSE Return([score |-> FowlkesMallowsScore(ref_cluster_labels.value,
                                               comp_cluster_labels.value),
                 kmeans_k |-> kmeans_k,
                 k_from |-> k_from,
                 comp_fit |-> self.comparable.pc_vectors,
                 ref_fit |-> self.reference.pc_vectors,
                 comp_labels |-> comp_cluster_labels.value,
                 ref_labels |-> ref_cluster_labels.value])

\* compare_clustering once kmeans_k is known; k_from is <<the PCA whose
\* optimal cluster count was taken>>, or <<>> for an explicit kmeans_k
CompareClusteringWith(self, kmeans_k, k_from) ==
    ScoreClusterings(self, kmeans_k, k_from,
                     Cluster(self.comparable, kmeans_k),
                     Cluster(self.reference, kmeans_k))

\* PCAComparison.compare_clustering(kmeans_k): its possible outcomes.  The
\* argument is <<>> for None and <<k>> for the number k.
CompareClustering(self, kmeans_k) ==
    IF kmeans_k = <<>>
    THEN {IF ~ optimal.ok THEN optimal
          ELSE CompareClusteringWith(self, optimal.value, <<self.reference>>) :
          optimal \in GetOptimalKmeansK(self.reference)}
    ELSE {CompareClusteringWith(self, kmeans_k[1], <<>>)}

\* the Euclidean distance of two coordinate vectors
EuclideanDistance(x, y) == (ISqrt(4 * Dist2(x, y)) + 1) \div 2

\* PCAComparison._get_sample_distances(): the distance of the two positions
\* of every sample, as a series [index, values]
GetSampleDistances(self) ==
    IF SampleIds(self.comparable) # SampleIds(self.reference)
    THEN Raise("AssertionError", "sample_ids")
    ELSE Return([index |-> self.sample_ids,
                 values |-> [i \in 1..Len(self.reference.pc_vectors) |->
                    EuclideanDistance(self.reference.pc_vectors[i],
                                      self.comparable.pc_vectors[i])]])

\* a variant of Support: 1 - d in place of 1 / (1 + d)
SupportLinear(d) == [num |-> Unit - d, den |-> Unit]

\* the support 1 / (1 + d) of a distance d, as the fraction num / den
Support(d) == [num |-> Unit, den |-> Unit + d]

\* support_values = 1 / (1 + sample_distances)
SupportOfDistances(sample_distances) ==
    IF ~ sample_distances.ok THEN sample_distances
    ELSE Return([index |-> sample_distances.value.index,
                 values |-> [i \in 1..Len(sample_distances.value.values) |->
                                Support(sample_distances.value.values[i])]])

\* PCAComparison.get_sample_support_values()
GetSampleSupportValues(self) == SupportOfDistances(GetSampleDistances(self))

\* support_values.loc[lambda x: x.support < cutoff] on the series of the
\* support values.  x is the series itself; x.support is an attribute lookup,
\* which a series answers with the element labelled "support", and its index
\* holds the sample ids: the lookup raises AttributeError.
RogueOf(support_values, support_value_rogue_cutoff) ==
    IF ~ support_values.ok THEN support_values
    ELSE Raise("AttributeError", "support")

\* PCAComparison.detect_rogue_samples(support_value_rogue_cutoff)
DetectRogueSamples(self, support_value_rogue_cutoff) ==
    RogueOf(GetSampleSupportValues(self), support_value_rogue_cutoff)

\* ------------------------------------------------------------------ state
VARIABLES
    comparable,   \* the PCA passed as comparable to PCAComparison(...)
    reference,    \* the PCA passed as reference
    comparison,   \* the PCAComparison: not built, built (self) or raised
    warnings,     \* the warnings emitted so far
    ret,          \* the outcome of the last method call on the comparison
    pca_args,     \* the arguments of a call of PCA(...)
    pca,          \* the outcome of that call
    last_fit,     \* the last direct call of PCA.cluster, with its labels
    pandora_results,   \* the Pandora object: its config, dataset and results
    dataset_runs,      \* what embedding and bootstrapping the dataset yield
    batch_comparison,  \* the BatchEmbeddingComparison and its running method
    result_files,      \* the result files written so far
    called,            \* the methods of the Pandora object called so far
    main_pc            \* the position of main

\* the variables of a Pandora run
pandora_vars == <<pandora_results, dataset_runs, batch_comparison, result_files,
                  called, main_pc>>

\* no Pandora object, no batch comparison, no file, main not started
NoPandora ==
    /\ pandora_results = [status |-> "none"]
    /\ dataset_runs = [status |-> "none"]
    /\ batch_comparison = [status |-> "none"]
    /\ result_files = {}
    /\ called = {}
    /\ main_pc = "none"

vars == <<comparable, reference, comparison, warnings, ret, pca_args, pca,
          global_random_state, last_fit, pandora_vars>>

\* ----------------------------------------------------------------- inputs
\* a row of an input table: the sample varies along PC0
InputRow(id, population, x, n_pcs) ==
    [sample_id |-> id, population |-> population,
     pc |-> [j \in 1..n_pcs |-> IF j = 1 THEN x ELSE 0]]

\* explained variances of an input: base, base / 2, ... (in 1 / Unit)
InputVariances(base, n_pcs) ==
    [ndim |-> 1, values |-> [j \in 1..n_pcs |-> base \div j]]

\* the PCA object built from well-formed rows
NewPCA(rows, n_pcs, base) ==
    PCAInit([columns |-> PCAColumns(n_pcs), rows |-> rows],
            InputVariances(base, n_pcs), n_pcs).value

\* how often each sample id occurs in an input: not at all or once, and
\* sample 1 possibly twice
IdCounts == {c \in [1..MaxId -> 0..2] : \A i \in 2..MaxId : c[i] <= 1}

\* the rows of the ids with the given counts, in ascending order of the id;
\* x(id, copy) and population(id) give the row's data
IdAt(c, k) ==
    CHOOSE i \in 1..MaxId :
        /\ SumSeq([j \in 1..(i - 1) |-> c[j]]) < k
        /\ k <= SumSeq([j \in 1..i |-> c[j]])

CopyAt(c, k) == k - SumSeq([j \in 1..(IdAt(c, k) - 1) |-> c[j]])

ComparableX(id, copy) == (id + copy) % 3

ReferenceX(id, copy) == (id * id + copy) % 3

\* inputs that differ in their sample sets and in n_pcs
SampleSetInputs ==
    {[comparable |->
        NewPCA([k \in 1..SumSeq([i \in 1..MaxId |-> cc[i]]) |->
                   InputRow(IdAt(cc, k), 1, ComparableX(IdAt(cc, k), CopyAt(cc, k)), nc)],
               nc, 60),
      reference |->
        NewPCA([k \in 1..SumSeq([i \in 1..MaxId |-> cr[i]]) |->
                   InputRow(IdAt(cr, k), 1 + (IdAt(cr, k) % 2),
                            ReferenceX(IdAt(cr, k), CopyAt(cr, k)), nr)],
               nr, 50)] :
     cc \in IdCounts, cr \in IdCounts, nc \in 1..2, nr \in 1..2}

\* inputs over the same samples 1..n that differ in their coordinates.  The
\* reference's coordinates ascend with the sample id: every other pair of
\* inputs is one of these with its samples renamed.  The comparable is built
\* from a table whose rows come in descending order of the sample id.
CoordinateInputs ==
    UNION {
    {[comparable |-> NewPCA([i \in 1..n |-> InputRow(n + 1 - i, 1, xc[n + 1 - i], npcs)],
                            npcs, 60),
      reference |-> NewPCA([i \in 1..n |-> InputRow(i, 1, xr[i], npcs)], npcs, 50)] :
     xc \in [1..n -> CoordValues],
     xr \in {x \in [1..n -> CoordValues] : \A i \in 1..(n - 1) : x[i] <= x[i + 1]},
     npcs \in 1..2} :
    n \in 0..MaxId}

\* inputs over the same samples that differ in their population labels:
\* sample i has population 1 + (i mod p)
PopulationInputs ==
    {[comparable |->
        NewPCA([i \in 1..n |-> InputRow(i, 1 + (i % pc), ComparableX(i, 1), 1)], 1, 60),
      reference |->
        NewPCA([i \in 1..n |-> InputRow(i, 1 + (i % pr), ReferenceX(i, 1), 1)], 1, 50)] :
     n \in (MaxSamples - 1)..MaxSamples, pc \in 1..MaxPops, pr \in 1..MaxPops}

\* an embedding compared with itself: comparable and reference are the same
\* PCA, over the samples 1..n with every choice of coordinates
SelfInputs ==
    UNION {
    {[comparable |-> NewPCA([i \in 1..n |-> InputRow(i, 1 + (i % p), x[i], npcs)], npcs, 60),
      reference |-> NewPCA([i \in 1..n |-> InputRow(i, 1 + (i % p), x[i], npcs)], npcs, 60)] :
     x \in [1..n -> CoordValues], p \in 1..2, npcs \in 1..2} :
    n \in 0..MaxId}

NoCall == [op |-> "none"]

NoPCA == [ok |-> FALSE, exc |-> "none", why |-> "none"]

NoArgs == [columns |-> <<>>, rows |-> <<>>, ndim |-> 1, values |-> <<>>, n_pcs |-> 0]

Init ==
    /\ \/ \E input \in SampleSetInputs :
            comparable = input.comparable /\ reference = input.reference
       \/ \E input \in CoordinateInputs :
            comparable = input.comparable /\ reference = input.reference
       \/ \E input \in PopulationInputs :
            comparable = input.comparable /\ reference = input.reference
       \/ \E input \in SelfInputs :
            comparable = input.comparable /\ reference = input.reference
    /\ comparison = [status |-> "none"]
    /\ warnings = <<>>
    /\ ret = NoCall
    /\ pca_args = NoArgs
    /\ pca = NoPCA
    /\ global_random_state = 0
    /\ last_fit = <<>>
    /\ NoPandora

\* ---------------------------------------------------------------- actions
\* a variant of NewPCAComparison that aligns the comparable in place: the
\* caller's embedding becomes the aligned one
NewPCAComparisonInPlace ==
    /\ comparison.status = "none"
    /\ ret = NoCall
    /\ \E built \in {PCAComparisonInit(comparable, reference)} :
          IF built.ok
          THEN /\ comparison' = [status |-> "ok", self |-> built.value.self]
               /\ warnings' = warnings \o built.value.warnings
               /\ comparable' = built.value.self.reference
          ELSE /\ comparison' = [status |-> "raised", exc |-> built.exc, why |-> built.why]
               /\ warnings' = warnings \o built.warnings
               /\ comparable' = comparable
    /\ UNCHANGED <<reference, ret, pca_args, pca, global_random_state, last_fit>>
    /\ UNCHANGED pandora_vars

\* PCAComparison(comparable, reference)
NewPCAComparison ==
    /\ comparison.status = "none"
    /\ ret = NoCall
    /\ \E built \in {PCAComparisonInit(comparable, reference)} :
          IF built.ok
          THEN /\ comparison' = [status |-> "ok", self |-> built.value.self]
               /\ warnings' = warnings \o built.value.warnings
          ELSE /\ comparison' = [status |-> "raised", exc |-> built.exc, why |-> built.why]
               /\ warnings' = warnings \o built.warnings
    /\ UNCHANGED <<comparable, reference, ret, pca_args, pca,
                 global_random_state, last_fit>>
    /\ UNCHANGED pandora_vars

\* comparison.compare()
CallCompare ==
    /\ comparison.status = "ok"
    /\ ret = NoCall
    /\ ret' = [op |-> "compare", ok |-> TRUE, value |-> Compare(comparison.self)]
    /\ UNCHANGED <<comparable, reference, comparison, warnings, pca_args, pca,
                 global_random_state, last_fit>>
    /\ UNCHANGED pandora_vars

\* comparison.compare_clustering(kmeans_k)
CallCompareClustering ==
    /\ comparison.status = "ok"
    /\ ret = NoCall
    /\ \E kmeans_k \in {<<>>} \cup {<<k>> : k \in 1..MaxK} :
       \E outcome \in CompareClustering(comparison.self, kmeans_k) :
          /\ ret' = [op |-> "compare_clustering", arg |-> kmeans_k, out |-> outcome]
          /\ global_random_state' \in
                IF kmeans_k = <<>>
                THEN RandomStateAfterSearch(comparison.self.reference, global_random_state)
                ELSE {global_random_state}
    /\ UNCHANGED <<comparable, reference, comparison, warnings, pca_args, pca,
                 last_fit>>
    /\ UNCHANGED pandora_vars

\* comparison.get_sample_support_values()
CallGetSampleSupportValues ==
    /\ comparison.status = "ok"
    /\ ret = NoCall
    /\ ret' = [op |-> "get_sample_support_values",
               out |-> GetSampleSupportValues(comparison.self)]
    /\ UNCHANGED <<comparable, reference, comparison, warnings, pca_args, pca,
                 global_random_state, last_fit>>
    /\ UNCHANGED pandora_vars

\* filter_samples(reference, samples_to_keep) with a list of ids in
\* descending order that may hold an id of no sample
CallFilterSamples ==
    /\ comparison.status = "none"
    /\ ret = NoCall
    /\ \E keep \in SUBSET (1..(MaxId + 1)) :
          ret' = [op |-> "filter_samples", pca |-> reference,
                  samples_to_keep |-> Descending(keep),
                  out |-> FilterSamples(reference, Descending(keep))]
    /\ UNCHANGED <<comparable, reference, comparison, warnings, pca_args, pca,
                 global_random_state, last_fit>>
    /\ UNCHANGED pandora_vars

\* _clip_missing_samples_for_comparison(comparable, reference), and once
\* more on the pair it returned
CallClipTwice ==
    /\ comparison.status = "none"
    /\ ret = NoCall
    /\ \E clipped \in {ClipMissingSamplesForComparison(comparable, reference)} :
          ret' = [op |-> "clip", out |-> clipped,
                  again |-> IF clipped.ok
                            THEN ClipMissingSamplesForComparison(
                                    clipped.value.comparable, clipped.value.reference)
                            ELSE clipped]
    /\ UNCHANGED <<comparable, reference, comparison, warnings, pca_args, pca,
                 global_random_state, last_fit>>
    /\ UNCHANGED pandora_vars

\* comparison.detect_rogue_samples(support_value_rogue_cutoff)
CallDetectRogueSamples ==
    /\ comparison.status = "ok"
    /\ ret = NoCall
    /\ \E cutoff \in {0, Unit \div 2, Unit} :
          ret' = [op |-> "detect_rogue_samples", cutoff |-> cutoff,
                  out |-> DetectRogueSamples(comparison.self, cutoff)]
    /\ UNCHANGED <<comparable, reference, comparison, warnings, pca_args, pca,
                 global_random_state, last_fit>>
    /\ UNCHANGED pandora_vars

\* the caller takes the outcome of the last call; the next call can follow
TakeResult ==
    /\ ret # NoCall
    /\ ret' = NoCall
    /\ UNCHANGED <<comparable, reference, comparison, warnings, pca_args, pca,
                 global_random_state, last_fit>>
    /\ UNCHANGED pandora_vars

Next ==
    \/ NewPCAComparison
    \/ CallCompare
    \/ CallCompareClustering
    \/ CallGetSampleSupportValues
    \/ CallDetectRogueSamples
    \/ CallFilterSamples
    \/ CallClipTwice
    \/ TakeResult

Spec == Init /\ [][Next]_vars

\* ------------------------------------------------- the constructor of PCA
\* the column names a table passed to PCA(...) is made of
ColumnNames == {SampleIdCol, PopulationCol, OtherCol} \cup {PCCol(i) : i \in 0..(MaxPcs - 1)}

\* the column headers of the tables passed to PCA(...)
Headers == UNION {[1..n -> ColumnNames] : n \in 0..MaxCols}

\* the rows of the tables passed to PCA(...): the samples in several orders
\* of their ids, each sample with coordinates of its own
ArgRowOrders ==
    {[i \in 1..Len(ids) |-> InputRow(ids[i], 1 + (ids[i] % 2), ids[i] % 3, MaxPcs)] :
     ids \in {<<2, 1>>, <<1, 2>>, <<3, 1, 2>>}}

InitPCA ==
    /\ comparable = NoPCA
    /\ reference = NoPCA
    /\ comparison = [status |-> "none"]
    /\ warnings = <<>>
    /\ ret = NoCall
    /\ pca_args = NoArgs
    /\ pca = NoPCA
    /\ global_random_state = 0
    /\ last_fit = <<>>
    /\ NoPandora

\* PCA(pca_data, explained_variances, n_pcs) on a table with any header and
\* an array of any dimension and length
CallPCA ==
    /\ pca_args = NoArgs
    /\ \E columns \in Headers, rows \in ArgRowOrders,
          ndim \in 1..2, len \in 0..MaxPcs, n_pcs \in 0..MaxPcs :
          /\ pca_args' = [columns |-> columns, rows |-> rows, ndim |-> ndim,
                          values |-> InputVariances(60, len).values, n_pcs |-> n_pcs]
          /\ pca' = PCAInit([columns |-> columns, rows |-> rows],
                            [ndim |-> ndim, values |-> InputVariances(60, len).values],
                            n_pcs)
    /\ UNCHANGED <<comparable, reference, comparison, warnings, ret,
                 global_random_state, last_fit>>
    /\ UNCHANGED pandora_vars

NextPCA == CallPCA

SpecPCA == InitPCA /\ [][NextPCA]_vars

\* --------------------------------------------- clustering of one embedding
\* embeddings of up to MaxSamples samples in 1..MaxPops populations, with
\* coordinates that are equally spaced or repeat
SmallEmbeddings ==
    {NewPCA([i \in 1..n |->
                InputRow(i, 1 + (i % p), IF spaced THEN i ELSE i % 3, 1)], 1, 60) :
     n \in 0..MaxSamples, p \in 1..MaxPops, spaced \in BOOLEAN}

\* the sample counts around the squares up to MaxLarge
LargeSizes ==
    {r * r : r \in 1..ISqrt(MaxLarge)} \cup {r * r - 1 : r \in 1..ISqrt(MaxLarge)}
    \cup {MaxLarge}

\* embeddings of one population, as PCA.__init__ leaves them: the rows are in
\* the order of their ids
LargeEmbeddings ==
    {PCAAttributes(PCAColumns(1), [i \in 1..n |-> InputRow(i, 1, i % 3, 1)],
                   InputVariances(60, 1), 1) : n \in LargeSizes}

InitCluster ==
    /\ comparable = NoPCA
    /\ reference = NoPCA
    /\ comparison = [status |-> "none"]
    /\ warnings = <<>>
    /\ ret = NoCall
    /\ pca_args = NoArgs
    /\ \E embedding \in SmallEmbeddings \cup LargeEmbeddings : pca = Return(embedding)
    /\ global_random_state \in RandomStates
    /\ last_fit = <<>>
    /\ NoPandora

\* pca.get_optimal_kmeans_k() without k_boundaries; the call is recorded with
\* the boundaries and the grid it searched
CallGetOptimalKmeansK ==
    /\ pca.ok
    /\ ret = NoCall
    /\ \E outcome \in GetOptimalKmeansK(pca.value) :
          ret' = [op |-> "get_optimal_kmeans_k", out |-> outcome,
                  min_k |-> MinKOf(pca.value), max_k |-> MaxKOf(pca.value),
                  grid |-> KCandidates(pca.value)]
    /\ global_random_state' \in RandomStateAfterSearch(pca.value, global_random_state)
    /\ UNCHANGED <<comparable, reference, comparison, warnings, pca_args, pca, last_fit>>
    /\ UNCHANGED pandora_vars

\* pca.cluster(kmeans_k) with a number, and predict on the embedding's
\* coordinates; the call is recorded with the call before it
CallCluster ==
    /\ pca.ok
    /\ ret = NoCall
    /\ NSamples(pca.value) <= MaxSamples
    /\ \E kmeans_k \in 1..MaxK :
       \E labels \in {Cluster(pca.value, kmeans_k)} :
          /\ ret' = [op |-> "cluster", kmeans_k |-> kmeans_k, out |-> labels,
                     previous |-> last_fit]
          /\ last_fit' = << [data |-> pca.value.pc_vectors, kmeans_k |-> kmeans_k,
                             labels |-> labels,
                             random_state |-> global_random_state] >>
    /\ UNCHANGED <<comparable, reference, comparison, warnings, pca_args, pca,
                   global_random_state>>
    /\ UNCHANGED pandora_vars

\* other code draws from the global random generator, or seeds it
AmbientRandomDraw ==
    /\ ret = NoCall
    /\ global_random_state' \in RandomStates \ {global_random_state}
    /\ UNCHANGED <<comparable, reference, comparison, warnings, ret, pca_args, pca,
                   last_fit>>
    /\ UNCHANGED pandora_vars

NextCluster ==
    \/ CallGetOptimalKmeansK
    \/ CallCluster
    \/ AmbientRandomDraw
    \/ TakeResult

SpecCluster == InitCluster /\ [][NextCluster]_vars

\* ------------------------------------------------------ class PandoraConfig
\* logging.ERROR, logging.INFO and logging.DEBUG
LoggingERROR == 40

LoggingINFO == 20

LoggingDEBUG == 10

\* a variant of Loglevel that takes every verbosity above 1 for debug
LoglevelDebugAbove(pandora_config) ==
    IF pandora_config.verbosity = 0 THEN Return(LoggingERROR)
    ELSE IF pandora_config.verbosity = 1 THEN Return(LoggingINFO)
    ELSE IF pandora_config.verbosity >= 2 THEN Return(LoggingDEBUG)
    ELSE Raise("ValueError", "verbosity")

\* PandoraConfig.loglevel
Loglevel(pandora_config) ==
    IF pandora_config.verbosity = 0 THEN Return(LoggingERROR)
    ELSE IF pandora_config.verbosity = 1 THEN Return(LoggingINFO)
    ELSE IF pandora_config.verbosity = 2 THEN Return(LoggingDEBUG)
    ELSE Raise("ValueError", "verbosity")

\* ------------------------------------------------------------ class Pandora
\* Pandora.__init__(pandora_config): None is <<>>, an empty DataFrame is <<>>
PandoraInit(pandora_config) ==
    [status |-> "ok",
     pandora_config |-> pandora_config,
     dataset |-> [pca |-> <<>>],
     bootstraps |-> <<>>,
     bootstrap_stabilities |-> <<>>,
     bootstrap_stability |-> <<>>,
     bootstrap_cluster_stabilities |-> <<>>,
     bootstrap_cluster_stability |-> <<>>,
     sample_support_values |-> <<>>]

\* Pandora.embed_dataset() without plots: run is the outcome of the
\* embedding of the dataset, the embedding or an exception
EmbedDataset(self, run) ==
    IF ~ run.ok THEN run
    ELSE Return([self EXCEPT !.dataset = [pca |-> <<run.value>>]])

\* DataFrame.empty of the table of support values: a series per pair, no
\* pair or no sample
SupportValuesEmpty(sample_support_values) ==
    \A pair \in DOMAIN sample_support_values :
        sample_support_values[pair].index = <<>>

\* Pandora._log_and_save_sample_support_values() for a dataset without
\* projected samples: the outcome and the result files there are then
LogAndSaveSampleSupportValues(self, files) ==
    IF SupportValuesEmpty(self.sample_support_values)
    THEN [out |-> Raise("PandoraException", "no_bootstrap_results"), files |-> files]
    ELSE [out |-> Return(<<>>), files |-> files \cup {"sample_support_values_csv"}]

\* a variant of LogAndSaveBootstrapResults that refuses only when both
\* stabilities are None
LogAndSaveBootstrapResultsBothNone(self, files) ==
    IF self.bootstrap_stability = <<>> /\ self.bootstrap_cluster_stability = <<>>
    THEN [out |-> Raise("PandoraException", "no_bootstrap_results"), files |-> files]
    ELSE LogAndSaveSampleSupportValues(
            self, files \cup {"pairwise_bootstrap_result_file", "result_file"})

\* Pandora.log_and_save_bootstrap_results(): the outcome and the result files
\* there are then
LogAndSaveBootstrapResults(self, files) ==
    IF self.bootstrap_stability = <<>> \/ self.bootstrap_cluster_stability = <<>>
    THEN [out |-> Raise("PandoraException", "no_bootstrap_results"), files |-> files]
    ELSE LogAndSaveSampleSupportValues(
            self, files \cup {"pairwise_bootstrap_result_file", "result_file"})

\* ----------------------------------------------------- the batch comparison
\* the unordered pairs of n embeddings, by their positions
Pairs(n) == {pair \in (1..n) \X (1..n) : pair[1] < pair[2]}

\* the methods of the batch comparison that _compare_bootstrap_similarity
\* calls, in the order of its calls
BatchMethods ==
    <<"compare", "get_pairwise_stabilities", "compare_clustering",
      "get_pairwise_cluster_stabilities", "get_sample_support_values">>

\* the result of one pair for a method of the batch, from the PCAComparison
\* of the pair: its similarity, its cluster similarity with the cluster count
\* used and where that was taken from, or its support values
PairResultOf(built, method, kmeans_k) ==
    IF ~ built.ok THEN {Raise(built.exc, built.why)}
    ELSE IF method \in {"compare", "get_pairwise_stabilities"}
    THEN {Return([value |-> Compare(built.value.self), kmeans_k |-> <<>>, k_from |-> <<>>])}
    ELSE IF method = "get_sample_support_values"
    THEN {IF ~ o.ok THEN o
          ELSE Return([value |-> o.value, kmeans_k |-> <<>>, k_from |-> <<>>]) :
          o \in {GetSampleSupportValues(built.value.self)}}
    ELSE {IF ~ o.ok THEN o
          ELSE Return([value |-> o.value.score, kmeans_k |-> <<o.value.kmeans_k>>,
                       k_from |-> o.value.k_from]) :
          o \in CompareClustering(built.value.self, kmeans_k)}

\* the outcomes of one pair: the first embedding of the pair is the
\* comparable, the second the reference
PairOutcomes(embeddings, pair, method, kmeans_k) ==
    PairResultOf(PCAComparisonInit(embeddings[pair[1]], embeddings[pair[2]]),
                 method, kmeans_k)

\* a variant of Merge that keys a result by its arrival: the k-th result to
\* arrive is filed under the k-th pair
MergeByArrival(merged, pair, embeddings, result) ==
    merged @@
    ((CHOOSE at \in Pairs(Len(embeddings)) :
        Cardinality({q \in Pairs(Len(embeddings)) :
                        q[1] < at[1] \/ (q[1] = at[1] /\ q[2] < at[2])})
        = Cardinality(DOMAIN merged))
     :> [value |-> result.value, kmeans_k |-> result.kmeans_k, k_from |-> result.k_from,
         comparable |-> embeddings[pair[1]], reference |-> embeddings[pair[2]]])

\* the coordinator merges the result a worker returns, keyed by its pair,
\* together with the two embeddings that were compared
Merge(merged, pair, embeddings, result) ==
    merged @@
    (pair :> [value |-> result.value, kmeans_k |-> result.kmeans_k, k_from |-> result.k_from,
              comparable |-> embeddings[pair[1]], reference |-> embeddings[pair[2]]])

\* the sum of a number per pair over the pairs of n embeddings
Total(number, n) ==
    SumSeq([i \in 1..n |->
        SumSeq([j \in 1..n |-> IF i < j THEN number[<<i, j>>] ELSE 0])])

\* the arithmetic mean of the pairwise similarities: nan if one of them is
MeanSimilarity(merged, n) ==
    IF \E pair \in DOMAIN merged : merged[pair].value.nan
    THEN [nan |-> TRUE, v |-> 0]
    ELSE [nan |-> FALSE,
          v |-> RoundDiv(Total([pair \in DOMAIN merged |-> merged[pair].value.v], n),
                         Cardinality(DOMAIN merged))]

\* what a method of the batch returns once every pair is merged: the mean
\* over all pairs, or the table of the pairwise values
MethodValue(method, merged, n) ==
    IF method = "compare" THEN MeanSimilarity(merged, n)
    ELSE IF method = "compare_clustering"
    THEN RoundDiv(Total([pair \in DOMAIN merged |-> merged[pair].value], n),
                  Cardinality(DOMAIN merged))
    ELSE [pair \in DOMAIN merged |-> merged[pair].value]

\* --------------------------------------------- Pandora.bootstrap_embeddings
\* bootstrap_and_embed_multiple(dataset, n_bootstraps, ...): the replicates
\* of the dataset with their embeddings
BootstrapAndEmbedMultiple(runs, n_bootstraps) ==
    [i \in 1..n_bootstraps |-> [pca |-> runs.bootstraps[i]]]

\* a variant of BatchEmbeddings that puts the embedding of the dataset itself
\* before those of the bootstraps
BatchEmbeddingsWithDataset(self) ==
    self.dataset.pca \o [i \in 1..Len(self.bootstraps) |-> self.bootstraps[i].pca]

\* [b.pca for b in self.bootstraps]
BatchEmbeddings(self) == [i \in 1..Len(self.bootstraps) |-> self.bootstraps[i].pca]

\* a variant of KmeansKOfBatch that leaves an unset kmeans_k to the batch
KmeansKLeftUnset(self) == {Return(self.pandora_config.kmeans_k)}

\* the kmeans_k that _compare_bootstrap_similarity hands to the batch: the
\* configured one, or embedding.get_optimal_kmeans_k() of the dataset's
\* embedding, which is None before embed_dataset
KmeansKOfBatch(self) ==
    IF self.pandora_config.kmeans_k # <<>> THEN {Return(self.pandora_config.kmeans_k)}
    ELSE IF self.dataset.pca = <<>> THEN {Raise("AttributeError", "NoneType")}
    ELSE {IF ~ optimal.ok THEN optimal ELSE Return(<<optimal.value>>) :
          optimal \in GetOptimalKmeansK(self.dataset.pca[1])}

\* if len(self.bootstraps) == 0: raise, after kmeans_k is determined
CheckBootstraps(self, kmeans_k) ==
    IF ~ kmeans_k.ok THEN kmeans_k
    ELSE IF Len(self.bootstraps) = 0
    THEN Raise("PandoraException", "no_bootstrap_replicates")
    ELSE kmeans_k

\* a variant of AssignResult that stores both means in bootstrap_stability
AssignResultOneStability(self, method, value) ==
    IF method \in {"compare", "compare_clustering"}
    THEN [self EXCEPT !.bootstrap_stability = <<value>>]
    ELSE IF method = "get_pairwise_stabilities"
    THEN [self EXCEPT !.bootstrap_stabilities = value]
    ELSE IF method = "get_pairwise_cluster_stabilities"
    THEN [self EXCEPT !.bootstrap_cluster_stabilities = value]
    ELSE [self EXCEPT !.sample_support_values = value]

\* the attribute _compare_bootstrap_similarity assigns what a method of the
\* batch returned
AssignResult(self, method, value) ==
    IF method = "compare" THEN [self EXCEPT !.bootstrap_stability = <<value>>]
    ELSE IF method = "get_pairwise_stabilities"
    THEN [self EXCEPT !.bootstrap_stabilities = value]
    ELSE IF method = "compare_clustering"
    THEN [self EXCEPT !.bootstrap_cluster_stability = <<value>>]
    ELSE IF method = "get_pairwise_cluster_stabilities"
    THEN [self EXCEPT !.bootstrap_cluster_stabilities = value]
    ELSE [self EXCEPT !.sample_support_values = value]

\* a method of the batch on n embeddings, every pair merged: pairwise
\* comparison is undefined for fewer than two replicates
MethodOutcome(method, merged, n) ==
    IF n < 2 THEN Raise("InsufficientReplicatesError", "fewer_than_two")
    ELSE Return(MethodValue(method, merged, n))

\* ------------------------------------------------------- inputs of a run
\* the embedding of the dataset: MaxSamples samples in p populations
OriginalWith(p) ==
    NewPCA([i \in 1..MaxSamples |-> InputRow(i, 1 + (i % p), i, 1)], 1, 60)

\* what the embedding of the dataset yields: an embedding whose cluster
\* count cannot be searched (one population), embeddings whose cluster count
\* can, or the failure of the embedding
EmbeddingRuns ==
    {Return(OriginalWith(p)) : p \in {1, MaxPops - 1, MaxPops}}
    \cup {Raise("PandoraException", "smartpca")}

\* the kinds of replicate collections
Families == {"same_samples", "identical", "missing_samples", "disjoint"}

\* the sample ids of the r-th replicate: all of 1..MaxId; all but the r-th
\* of 1..MaxBootstraps + 1; or two ids no other replicate has
ReplicateIds(family, r) ==
    IF family = "missing_samples"
    THEN [k \in 1..MaxBootstraps |-> IF k < r THEN k ELSE k + 1]
    ELSE IF family = "disjoint" THEN <<2 * r - 1, 2 * r>>
    ELSE [k \in 1..MaxId |-> k]

\* the coordinate of sample id in the r-th replicate
ReplicateX(family, r, id) ==
    IF family # "same_samples" THEN id
    ELSE IF id = 1 THEN 0
    ELSE IF id = 2 THEN 1 + ((r \div 2) % 2)
    ELSE 1 + (((r + 1) \div 2) % 2)

\* the embeddings of the replicates that bootstrapping yields
Replicates(family) ==
    [r \in 1..MaxBootstraps |->
        NewPCA([k \in 1..Len(ReplicateIds(family, r)) |->
                   InputRow(ReplicateIds(family, r)[k],
                            1 + (ReplicateIds(family, r)[k] % 2),
                            ReplicateX(family, r, ReplicateIds(family, r)[k]), 1)],
               1, 60)]

\* kmeans_k of the config: None or a number
KOptions == {<<>>} \cup {<<k>> : k \in 1..MaxK}

\* runs in which the caller works with the Pandora object itself
ApiInputs ==
    {[pandora_config |-> [n_bootstraps |-> n, kmeans_k |-> k, verbosity |-> 1,
                          analysis_mode |-> "BOOTSTRAP"],
      dataset_runs |-> [pca |-> run, bootstraps |-> Replicates("same_samples")]] :
     n \in 0..(MaxBootstraps - 1), k \in KOptions, run \in EmbeddingRuns}
    \cup
    {[pandora_config |-> [n_bootstraps |-> MaxBootstraps, kmeans_k |-> of[2], verbosity |-> 1,
                          analysis_mode |-> "BOOTSTRAP"],
      dataset_runs |-> [pca |-> Return(OriginalWith(MaxPops - 1)),
                        bootstraps |-> Replicates(of[1])]] :
     of \in {fk \in Families \X {<<>>, <<2>>} : fk[2] # <<>> \/ fk[1] = "same_samples"}}

\* runs of main
MainInputs ==
    {[pandora_config |-> [n_bootstraps |-> n, kmeans_k |-> k, verbosity |-> v,
                          analysis_mode |-> mode],
      dataset_runs |-> [pca |-> run, bootstraps |-> Replicates("same_samples")]] :
     n \in {0, 2}, k \in {<<>>, <<2>>}, v \in (-MaxVerbosity)..MaxVerbosity,
     mode \in {"BOOTSTRAP", "SLIDING_WINDOW", "OTHER"},
     run \in {Return(OriginalWith(MaxPops - 1)), Raise("PandoraException", "smartpca")}}

InitPandora ==
    /\ comparable = NoPCA
    /\ reference = NoPCA
    /\ comparison = [status |-> "none"]
    /\ warnings = <<>>
    /\ ret = NoCall
    /\ pca_args = NoArgs
    /\ pca = NoPCA
    /\ global_random_state = 0
    /\ last_fit = <<>>
    /\ batch_comparison = [status |-> "none"]
    /\ result_files = {}
    /\ called = {}
    /\ \/ \E input \in ApiInputs :
            /\ pandora_results = PandoraInit(input.pandora_config)
            /\ dataset_runs = input.dataset_runs
            /\ main_pc = "none"
       \/ \E input \in MainInputs :
            /\ pandora_results = [status |-> "none", pandora_config |-> input.pandora_config]
            /\ dataset_runs = input.dataset_runs
            /\ main_pc = "start"

\* ------------------------------------------------- actions of a Pandora run
\* the variables of the comparison of two embeddings, which a run leaves alone
comparison_vars == <<comparable, reference, comparison, warnings, pca_args, pca, last_fit>>

\* where main is after a call that returned or raised; "none" without main
MainAfter(out, then) ==
    IF main_pc = "none" THEN "none" ELSE IF out.ok THEN then ELSE "failed"

\* no method of the Pandora object is running and no outcome is pending
Idle ==
    /\ pandora_results.status = "ok"
    /\ batch_comparison.status # "running"
    /\ ret = NoCall

\* bootstrap_embeddings() up to the first call on the batch comparison: the
\* bootstraps are drawn and embedded, the batch comparison is built from
\* their embeddings, kmeans_k is determined, an empty list of bootstraps
\* raises
BootstrapEmbeddingsStarts(method) ==
    /\ called' = called \cup {method}
    /\ \E with_bootstraps \in
            {[pandora_results EXCEPT !.bootstraps =
                BootstrapAndEmbedMultiple(dataset_runs,
                                          pandora_results.pandora_config.n_bootstraps)]} :
       \E kmeans_k \in {CheckBootstraps(with_bootstraps, k) :
                        k \in KmeansKOfBatch(with_bootstraps)} :
          /\ pandora_results' = with_bootstraps
          /\ global_random_state' \in
                IF with_bootstraps.pandora_config.kmeans_k = <<>>
                   /\ with_bootstraps.dataset.pca # <<>>
                THEN RandomStateAfterSearch(with_bootstraps.dataset.pca[1],
                                            global_random_state)
                ELSE {global_random_state}
          /\ main_pc' = MainAfter(kmeans_k, "analysis")
          /\ IF kmeans_k.ok
             THEN /\ batch_comparison' =
                        [status |-> "running",
                         embeddings |-> BatchEmbeddings(with_bootstraps),
                         method |-> 1,
                         kmeans_k |-> kmeans_k.value,
                         merged |-> <<>>]
                  /\ ret' = ret
             ELSE /\ batch_comparison' =
                        [status |-> "failed",
                         embeddings |-> BatchEmbeddings(with_bootstraps)]
                  /\ ret' = [op |-> "bootstrap_embeddings", out |-> kmeans_k]
    /\ UNCHANGED <<dataset_runs, result_files>>
    /\ UNCHANGED comparison_vars

\* pandora_results.bootstrap_embeddings()
CallBootstrapEmbeddings ==
    /\ main_pc = "none"
    /\ Idle
    /\ "bootstrap_embeddings" \notin called
    /\ BootstrapEmbeddingsStarts("bootstrap_embeddings")

\* a worker compares one pair that is still open for the running method of
\* the batch, and the coordinator merges its result; a pair that fails makes
\* the method, and with it bootstrap_embeddings, fail at once
EvaluatePair ==
    /\ batch_comparison.status = "running"
    /\ \E pair \in Pairs(Len(batch_comparison.embeddings)) \ DOMAIN batch_comparison.merged :
       \E outcome \in PairOutcomes(batch_comparison.embeddings, pair,
                                   BatchMethods[batch_comparison.method],
                                   batch_comparison.kmeans_k) :
          /\ global_random_state' \in
                IF batch_comparison.kmeans_k = <<>>
                   /\ BatchMethods[batch_comparison.method]
                        \in {"compare_clustering", "get_pairwise_cluster_stabilities"}
                THEN RandomStateAfterSearch(batch_comparison.embeddings[pair[2]],
                                            global_random_state)
                ELSE {global_random_state}
          /\ IF outcome.ok
             THEN /\ batch_comparison' =
                        [batch_comparison EXCEPT !.merged =
                            Merge(batch_comparison.merged, pair,
                                  batch_comparison.embeddings, outcome.value)]
                  /\ UNCHANGED <<ret, main_pc>>
             ELSE /\ batch_comparison' = [batch_comparison EXCEPT !.status = "failed"]
                  /\ ret' = [op |-> "bootstrap_embeddings", out |-> outcome]
                  /\ main_pc' = MainAfter(outcome, "analysed")
    /\ UNCHANGED <<pandora_results, dataset_runs, result_files, called>>
    /\ UNCHANGED comparison_vars

\* every pair is merged: the running method of the batch returns and
\* _compare_bootstrap_similarity assigns what it returned, then calls the
\* next method or, after the last, bootstrap_embeddings returns
FinishMethod ==
    /\ batch_comparison.status = "running"
    /\ DOMAIN batch_comparison.merged = Pairs(Len(batch_comparison.embeddings))
    /\ \E returned \in {MethodOutcome(BatchMethods[batch_comparison.method],
                                      batch_comparison.merged,
                                      Len(batch_comparison.embeddings))} :
          IF ~ returned.ok
          THEN /\ batch_comparison' = [batch_comparison EXCEPT !.status = "failed"]
               /\ ret' = [op |-> "bootstrap_embeddings", out |-> returned]
               /\ main_pc' = MainAfter(returned, "analysed")
               /\ UNCHANGED pandora_results
          ELSE /\ pandora_results' =
                     AssignResult(pandora_results, BatchMethods[batch_comparison.method],
                                  returned.value)
               /\ IF batch_comparison.method < Len(BatchMethods)
                  THEN /\ batch_comparison' =
                             [batch_comparison EXCEPT !.method = @ + 1, !.merged = <<>>]
                       /\ UNCHANGED <<ret, main_pc>>
                  ELSE /\ batch_comparison' = [batch_comparison EXCEPT !.status = "done"]
                       /\ ret' = [op |-> "bootstrap_embeddings", out |-> Return(<<>>)]
                       /\ main_pc' = MainAfter(returned, "analysed")
    /\ UNCHANGED <<dataset_runs, result_files, called, global_random_state>>
    /\ UNCHANGED comparison_vars

\* pandora_results.embed_dataset()
CallEmbedDataset ==
    /\ main_pc = "none"
    /\ Idle
    /\ "embed_dataset" \notin called
    /\ called' = called \cup {"embed_dataset"}
    /\ \E embedded \in {EmbedDataset(pandora_results, dataset_runs.pca)} :
          IF embedded.ok
          THEN /\ pandora_results' = embedded.value
               /\ ret' = [op |-> "embed_dataset", out |-> Return(<<>>)]
          ELSE /\ pandora_results' = pandora_results
               /\ ret' = [op |-> "embed_dataset", out |-> embedded]
    /\ UNCHANGED <<dataset_runs, batch_comparison, result_files, main_pc,
                   global_random_state>>
    /\ UNCHANGED comparison_vars

\* pandora_results.log_and_save_bootstrap_results()
CallLogAndSaveBootstrapResults ==
    /\ main_pc = "none"
    /\ Idle
    /\ \E logged \in {LogAndSaveBootstrapResults(pandora_results, result_files)} :
          /\ ret' = [op |-> "log_and_save_bootstrap_results", out |-> logged.out,
                     files_before |-> result_files]
          /\ result_files' = logged.files
    /\ called' = called \cup {"log_and_save_bootstrap_results"}
    /\ UNCHANGED <<pandora_results, dataset_runs, batch_comparison, main_pc,
                   global_random_state>>
    /\ UNCHANGED comparison_vars

\* ------------------------------------------------------------ steps of main
\* main reads the config, sets the log level from pandora_config.loglevel and
\* writes the log file and the config file
MainSetUp ==
    /\ main_pc = "start"
    /\ \E level \in {Loglevel(pandora_results.pandora_config)} :
          /\ ret' = [op |-> "loglevel",
                     verbosity |-> pandora_results.pandora_config.verbosity,
                     out |-> level]
          /\ main_pc' = MainAfter(level, "set_up")
    /\ UNCHANGED <<pandora_results, dataset_runs, batch_comparison, result_files, called,
                   global_random_state>>
    /\ UNCHANGED comparison_vars

\* pandora_results = Pandora(pandora_config)
MainNewPandora ==
    /\ main_pc = "set_up"
    /\ ret = NoCall
    /\ pandora_results' = PandoraInit(pandora_results.pandora_config)
    /\ main_pc' = "constructed"
    /\ UNCHANGED <<dataset_runs, batch_comparison, result_files, called, ret,
                   global_random_state>>
    /\ UNCHANGED comparison_vars

\* pandora_results.embed_dataset() of main
MainEmbedDataset ==
    /\ main_pc = "constructed"
    /\ ret = NoCall
    /\ called' = called \cup {"embed_dataset"}
    /\ \E embedded \in {EmbedDataset(pandora_results, dataset_runs.pca)} :
          /\ main_pc' = MainAfter(embedded, "embedded")
          /\ IF embedded.ok
             THEN /\ pandora_results' = embedded.value
                  /\ ret' = [op |-> "embed_dataset", out |-> Return(<<>>)]
             ELSE /\ pandora_results' = pandora_results
                  /\ ret' = [op |-> "embed_dataset", out |-> embedded]
    /\ UNCHANGED <<dataset_runs, batch_comparison, result_files, global_random_state>>
    /\ UNCHANGED comparison_vars

\* the branch on the analysis mode, with every mode starting the bootstrap
\* analysis
MainAnalysisAnyMode ==
    /\ main_pc = "embedded"
    /\ ret = NoCall
    /\ BootstrapEmbeddingsStarts("bootstrap_embeddings")

\* the branch on the analysis mode: the bootstrap or the sliding-window
\* analysis starts, any other mode raises
MainAnalysis ==
    /\ main_pc = "embedded"
    /\ ret = NoCall
    /\ IF pandora_results.pandora_config.analysis_mode = "BOOTSTRAP"
       THEN BootstrapEmbeddingsStarts("bootstrap_embeddings")
       ELSE IF pandora_results.pandora_config.analysis_mode = "SLIDING_WINDOW"
       THEN BootstrapEmbeddingsStarts("sliding_window")
       ELSE /\ ret' = [op |-> "analysis_mode",
                       out |-> Raise("PandoraConfigException", "analysis_mode")]
            /\ main_pc' = "failed"
            /\ UNCHANGED <<pandora_results, dataset_runs, batch_comparison, result_files,
                           called, global_random_state>>
            /\ UNCHANGED comparison_vars

\* main logs and saves the results of the replicates and lists the result
\* files
MainLogResults ==
    /\ main_pc = "analysed"
    /\ ret = NoCall
    /\ \E logged \in {LogAndSaveBootstrapResults(pandora_results, result_files)} :
          /\ ret' = [op |-> "log_and_save_replicates_results", out |-> logged.out,
                     files_before |-> result_files]
          /\ result_files' = logged.files
          /\ main_pc' = MainAfter(logged.out, "done")
    /\ called' = called \cup {"log_and_save_replicates_results"}
    /\ UNCHANGED <<pandora_results, dataset_runs, batch_comparison, global_random_state>>
    /\ UNCHANGED comparison_vars

NextPandora ==
    \/ CallEmbedDataset
    \/ CallBootstrapEmbeddings
    \/ CallLogAndSaveBootstrapResults
    \/ EvaluatePair
    \/ FinishMethod
    \/ MainSetUp
    \/ MainNewPandora
    \/ MainEmbedDataset
    \/ MainAnalysis
    \/ MainLogResults
    \/ TakeResult

SpecPandora == InitPandora /\ [][NextPandora]_vars

\* ------------------------------------------------------------- properties
\* the sample ids the two inputs share
SharedIds == Range(SampleIds(comparable)) \cap Range(SampleIds(reference))

\* the inputs restricted to the samples of the built comparison
ClippedComparable == FilterSamples(comparable, comparison.self.sample_ids).value

ClippedReference == FilterSamples(reference, comparison.self.sample_ids).value

Nondecreasing(s) == \A i \in 1..(Len(s) - 1) : s[i] <= s[i + 1]

\* the distance of the two aligned positions of the i-th sample
AlignedDistance(i) ==
    EuclideanDistance(comparison.self.reference.pc_vectors[i],
                      comparison.self.comparable.pc_vectors[i])

\* C1: after every successful return of match_and_transform the two returned
\* embeddings have the same sample-id sequence, element by element, the
\* sequence ascends, and it is not empty.
C1_MatchedSampleIds ==
    comparison.status = "ok" =>
        /\ SampleIds(comparison.self.comparable) = SampleIds(comparison.self.reference)
        /\ Nondecreasing(SampleIds(comparison.self.comparable))
        /\ Len(SampleIds(comparison.self.comparable)) > 0

\* match_and_transform returned for inputs of different sample sets, with
\* two or more samples left
C1_Witness ==
    /\ comparison.status = "ok"
    /\ Len(comparison.self.sample_ids) >= 2
    /\ comparison.self.sample_ids[1] < comparison.self.sample_ids[2]
    /\ NSamples(comparable) # NSamples(reference)

\* the conditions of C2 on the arguments of PCA(...)
C2_WellFormed ==
    /\ pca_args.ndim = 1
    /\ Len(pca_args.values) = pca_args.n_pcs
    /\ \E i \in 1..Len(pca_args.columns) : pca_args.columns[i] = SampleIdCol
    /\ \E i \in 1..Len(pca_args.columns) : pca_args.columns[i] = PopulationCol
    /\ Len(pca_args.columns) = pca_args.n_pcs + 2
    /\ \A c \in 0..(pca_args.n_pcs - 1) :
          \E i \in 1..Len(pca_args.columns) : pca_args.columns[i] = PCCol(c)

\* C2: the construction of a PCA succeeds if and only if explained_variances
\* is one-dimensional with n_pcs entries, the table has a sample_id and a
\* population column, it has exactly n_pcs + 2 columns and the columns
\* PC0..PC(n_pcs-1) are present; otherwise it raises PandoraException and
\* there is no PCA object.
C2_Construction ==
    pca_args # NoArgs =>
        /\ pca.ok <=> C2_WellFormed
        /\ pca.ok => pca.value.n_pcs = pca_args.n_pcs
        /\ ~ pca.ok => pca.exc = "PandoraException" /\ DOMAIN pca = {"ok", "exc", "why"}

\* a PCA of two components was constructed from rows that were not in order
C2_Witness ==
    /\ pca_args # NoArgs
    /\ pca.ok
    /\ pca_args.n_pcs = 2
    /\ pca_args.rows # pca.value.pca_data.rows

\* C3: for inputs whose sample-id sets are disjoint, match_and_transform
\* raises the PandoraException 'no samples left for comparison' and returns
\* nothing.
C3_DisjointNoSamples ==
    (comparison.status # "none" /\ SharedIds = {}) =>
        /\ comparison.status = "raised"
        /\ comparison.exc = "PandoraException"
        /\ comparison.why = "no_samples"

\* C4: for inputs with different n_pcs whose sample sets overlap,
\* match_and_transform raises the PandoraException of its shape check, and
\* fails in no other way.
C4_DimensionMismatch ==
    (comparison.status # "none" /\ SharedIds # {}
     /\ comparable.n_pcs # reference.n_pcs) =>
        /\ comparison.status = "raised"
        /\ comparison.exc = "PandoraException"
        /\ comparison.why = "shape_mismatch"

\* C5: in a PCAComparison built from (comparable, reference) the attribute
\* comparable is derived from the comparable argument and the attribute
\* reference from the reference argument: each has its own argument's
\* explained variances and populations.
C5_AttributesOfArguments ==
    comparison.status = "ok" =>
        /\ comparison.self.comparable.explained_variances = comparable.explained_variances
        /\ comparison.self.reference.explained_variances = reference.explained_variances
        /\ Populations(comparison.self.comparable) = Populations(ClippedComparable)
        /\ Populations(comparison.self.reference) = Populations(ClippedReference)

\* C6: compare_clustering without kmeans_k uses an optimal cluster count of
\* the reference input's data: one that get_optimal_kmeans_k can return for
\* the reference restricted to the shared samples.
C6_OptimalKOfReference ==
    (ret.op = "compare_clustering" /\ ret.arg = <<>> /\ ret.out.ok) =>
        Return(ret.out.value.kmeans_k) \in GetOptimalKmeansK(ClippedReference)

\* C7: compare_clustering fits its two K-Means models on the coordinates of
\* comparable and reference as they are after the filter to the shared
\* samples, not on the coordinates the alignment produced.
C7_FitsOnRawCoordinates ==
    (ret.op = "compare_clustering" /\ ret.out.ok) =>
        /\ ret.out.value.comp_fit = ClippedComparable.pc_vectors
        /\ ret.out.value.ref_fit = ClippedReference.pc_vectors

\* C8: compare() returns sqrt(max(0, 1 - disparity)): a number in [0, 1] for
\* every disparity, and 0 when 1 - disparity is negative.
C8_CompareClamped ==
    ret.op = "compare" =>
        /\ ~ ret.value.nan
        /\ ret.value.v \in 0..Unit
        /\ comparison.self.disparity > Unit * Unit => ret.value.v = 0

\* C9: get_sample_support_values returns one value per shared sample, indexed
\* by the sample's id, equal to 1 / (1 + d) for the distance d >= 0 of the
\* sample's two aligned positions; every value is in (0, 1], it is 1 exactly
\* when d = 0, and a larger distance has a smaller support.
C9_SupportValues ==
    ret.op = "get_sample_support_values" =>
        /\ ret.out.ok
        /\ ret.out.value.index = SampleIds(comparison.self.comparable)
        /\ Range(ret.out.value.index) = SharedIds
        /\ Len(ret.out.value.values) = Len(ret.out.value.index)
        /\ \A i \in 1..Len(ret.out.value.values) :
              /\ AlignedDistance(i) >= 0
              /\ ret.out.value.values[i].num * (Unit + AlignedDistance(i))
                    = Unit * ret.out.value.values[i].den
              /\ ret.out.value.values[i].num > 0
              /\ ret.out.value.values[i].num <= ret.out.value.values[i].den
              /\ (ret.out.value.values[i].num = ret.out.value.values[i].den)
                    <=> (AlignedDistance(i) = 0)
        /\ \A i, j \in 1..Len(ret.out.value.values) :
              AlignedDistance(i) < AlignedDistance(j) =>
                  ret.out.value.values[i].num * ret.out.value.values[j].den
                    > ret.out.value.values[j].num * ret.out.value.values[i].den

\* the supports of three samples, one of them at distance 0 and one not
C9_Witness ==
    /\ ret.op = "get_sample_support_values"
    /\ ret.out.ok
    /\ Len(ret.out.value.values) = 3
    /\ \E i, j \in 1..3 : AlignedDistance(i) = 0 /\ AlignedDistance(j) > 0

\* C10: for an embedding compared with itself the disparity is 0, compare()
\* returns 1.0, every support value is 1.0 and compare_clustering returns 1.0.
C10_SelfComparison ==
    comparable = reference =>
        /\ comparison.status = "ok" => comparison.self.disparity = 0
        /\ ret.op = "compare" => ret.value = [nan |-> FALSE, v |-> Unit]
        /\ ret.op = "get_sample_support_values" =>
              /\ ret.out.ok
              /\ \A i \in 1..Len(ret.out.value.values) :
                    ret.out.value.values[i].num = ret.out.value.values[i].den
        /\ (ret.op = "compare_clustering" /\ ret.out.ok) => ret.out.value.score = Unit

\* the number of samples of an input that the reconciliation keeps
KeptOf(input) ==
    Cardinality({i \in 1..NSamples(input) : SampleIds(input)[i] \in SharedIds})

\* the input keeps at most 80% of its samples
Loses(input) == 10 * KeptOf(input) <= 8 * NSamples(input)

\* the warning for an input, with its counts before and after
LossWarning(input) == [before |-> NSamples(input), after |-> KeptOf(input)]

\* C11: the reconciliation emits a sample-loss warning for an input exactly
\* when the number of samples it keeps is at most 80% of its sample count,
\* for the comparable and the reference separately, and the warning carries
\* the counts before and after.
C11_SampleLossWarnings ==
    comparison.status # "none" =>
        /\ Loses(comparable) <=>
              \E i \in 1..Len(warnings) : warnings[i] = LossWarning(comparable)
        /\ Loses(reference) <=>
              \E i \in 1..Len(warnings) : warnings[i] = LossWarning(reference)
        /\ Len(warnings) = (IF Loses(comparable) THEN 1 ELSE 0)
                           + (IF Loses(reference) THEN 1 ELSE 0)

\* no sample id occurs twice in the input
UniqueIds(input) == Cardinality(Range(SampleIds(input))) = NSamples(input)

\* the coordinate vectors an input has for the shared samples
SharedPoints(input) ==
    {input.pc_vectors[i] : i \in {j \in 1..NSamples(input) : SampleIds(input)[j] \in SharedIds}}

\* the inputs of C12: equal n_pcs, unique sample ids, a non-empty intersection
C12_Inputs ==
    /\ comparable.n_pcs = reference.n_pcs
    /\ UniqueIds(comparable) /\ UniqueIds(reference)
    /\ SharedIds # {}

\* match_and_transform returned embeddings of exactly |intersection| samples
C12_Returned ==
    /\ comparison.status = "ok"
    /\ NSamples(comparison.self.comparable) = Cardinality(SharedIds)
    /\ NSamples(comparison.self.reference) = Cardinality(SharedIds)

\* C12 as stated: for inputs with equal n_pcs, unique sample ids and a
\* non-empty intersection match_and_transform returns, also when the
\* sample-loss warning fires, and both returned embeddings have exactly
\* |intersection| samples.
C12_WarningNotFatal ==
    (comparison.status # "none" /\ C12_Inputs) => C12_Returned

\* C12 amended: the same for inputs whose shared samples have two or more
\* distinct coordinate vectors in each input (procrustes needs more than one
\* point).
C12_WarningNotFatalOnTwoPoints ==
    (comparison.status # "none" /\ C12_Inputs
     /\ Cardinality(SharedPoints(comparable)) >= 2
     /\ Cardinality(SharedPoints(reference)) >= 2) => C12_Returned

\* match_and_transform returned two samples although an input lost a third of
\* its samples and the warning fired
C12_Witness ==
    /\ C12_Inputs
    /\ C12_Returned
    /\ Cardinality(SharedIds) = 2
    /\ NSamples(comparable) = 3
    /\ warnings = <<[before |-> 3, after |-> 2]>>

\* C13: the reconciliation is idempotent: applied to the pair it returned,
\* _clip_missing_samples_for_comparison returns embeddings with the same
\* sample ids, order and coordinates and removes no sample, so that no
\* sample-loss warning fires the second time when the intersection is not
\* empty.
C13_ClipIdempotent ==
    (ret.op = "clip" /\ ret.out.ok) =>
        /\ ret.again.ok
        /\ SampleIds(ret.again.value.comparable) = SampleIds(ret.out.value.comparable)
        /\ SampleIds(ret.again.value.reference) = SampleIds(ret.out.value.reference)
        /\ ret.again.value.comparable.pc_vectors = ret.out.value.comparable.pc_vectors
        /\ ret.again.value.reference.pc_vectors = ret.out.value.reference.pc_vectors
        /\ SharedIds # {} => ret.again.value.warnings = <<>>

\* the reconciliation removed samples of both inputs, warned, and was applied
\* again to the two samples it kept
C13_Witness ==
    /\ ret.op = "clip"
    /\ ret.out.ok
    /\ Len(ret.out.value.warnings) = 2
    /\ NSamples(ret.out.value.comparable) = 2
    /\ ret.again.ok

\* the positions of the rows of an embedding whose sample id is in the list
KeptPositions(embedding, samples_to_keep) ==
    {i \in 1..NSamples(embedding) : \E k \in 1..Len(samples_to_keep) :
        samples_to_keep[k] = SampleIds(embedding)[i]}

\* the j-th of a set of positions, in ascending order
NthPosition(positions, j) ==
    CHOOSE i \in positions : Cardinality({m \in positions : m < i}) = j - 1

\* C14: filter_samples(pca, samples_to_keep) returns a new embedding whose
\* samples are exactly the samples of pca whose id is in samples_to_keep:
\* ids of no sample are ignored, the kept samples keep their relative order,
\* their coordinates and their population, and n_pcs and explained_variances
\* are carried over.
C14_FilterSamples ==
    ret.op = "filter_samples" =>
        /\ ret.out.ok
        /\ NSamples(ret.out.value)
              = Cardinality(KeptPositions(ret.pca, ret.samples_to_keep))
        /\ Len(ret.out.value.pc_vectors) = NSamples(ret.out.value)
        /\ \A j \in 1..NSamples(ret.out.value) :
              /\ ret.out.value.pca_data.rows[j]
                    = ret.pca.pca_data.rows[
                        NthPosition(KeptPositions(ret.pca, ret.samples_to_keep), j)]
              /\ ret.out.value.pc_vectors[j]
                    = ret.pca.pc_vectors[
                        NthPosition(KeptPositions(ret.pca, ret.samples_to_keep), j)]
        /\ ret.out.value.n_pcs = ret.pca.n_pcs
        /\ ret.out.value.explained_variances = ret.pca.explained_variances

\* a filter that kept the first and the last of three samples and ignored an
\* id of no sample
C14_Witness ==
    /\ ret.op = "filter_samples"
    /\ ret.out.ok
    /\ SampleIds(ret.pca) = <<1, 2, 3>>
    /\ ret.samples_to_keep = <<4, 3, 1>>
    /\ SampleIds(ret.out.value) = <<1, 3>>

\* C15: embeddings are never changed in place: filter_samples,
\* _clip_missing_samples_for_comparison, match_and_transform and the methods
\* of PCAComparison leave the sample ids, populations, coordinates, n_pcs and
\* explained_variances of the input embeddings as they were before the call.
C15_InputsUnchanged ==
    [][comparable' = comparable /\ reference' = reference]_vars

\* a comparison over fewer samples than its inputs has been built and
\* clustered, and the inputs are longer than the embeddings it holds
C15_Witness ==
    /\ comparison.status = "ok"
    /\ ret.op = "compare_clustering"
    /\ NSamples(comparison.self.comparable) < NSamples(comparable)
    /\ NSamples(comparison.self.reference) < NSamples(reference)
    /\ comparison.self.reference.pc_vectors # ClippedComparable.pc_vectors

\* C16: every constructed embedding is in canonical order: its rows ascend by
\* sample id whatever the order of the input table, and row i of pc_vectors
\* holds the coordinates of the sample in row i of pca_data.
C16_CanonicalOrder ==
    (pca_args # NoArgs /\ pca.ok) =>
        /\ Nondecreasing(SampleIds(pca.value))
        /\ Range(pca.value.pca_data.rows) = Range(pca_args.rows)
        /\ NSamples(pca.value) = Len(pca_args.rows)
        /\ Len(pca.value.pc_vectors) = NSamples(pca.value)
        /\ \A i \in 1..NSamples(pca.value) :
              pca.value.pc_vectors[i]
                = [j \in 1..pca_args.n_pcs |-> pca.value.pca_data.rows[i].pc[j]]

\* a PCA constructed from a table whose rows had the ids 3, 1, 2
C16_Witness ==
    /\ pca_args # NoArgs
    /\ pca.ok
    /\ pca_args.n_pcs = 1
    /\ [i \in 1..Len(pca_args.rows) |-> pca_args.rows[i].sample_id] = <<3, 1, 2>>
    /\ pca.value.pc_vectors = <<<<1>>, <<2>>, <<0>>>>

\* the distinct population labels of the embedding that is clustered
PopulationLabels == Range(Populations(pca.value))

\* the integer square root of the sample count of that embedding
RootOfSamples ==
    CHOOSE r \in 0..NSamples(pca.value) :
        r * r <= NSamples(pca.value) /\ NSamples(pca.value) < (r + 1) * (r + 1)

C18_OptimalKReturned ==
    (ret.op = "get_optimal_kmeans_k" /\ NSamples(pca.value) >= 1) =>
        /\ ret.out.ok
        /\ ret.min_k <= ret.out.value
        /\ ret.out.value <= ret.max_k
        /\ ret.out.value \in ret.grid

\* C19: clustering is reproducible: two calls of cluster(k) on the same
\* coordinates with the same k give the same cluster assignments, whatever
\* was called in between and whatever the state of the global random
\* generator is.
C19_ClusterReproducible ==
    (ret.op = "cluster" /\ ret.previous # <<>>
     /\ ret.previous[1].kmeans_k = ret.kmeans_k
     /\ ret.previous[1].data = pca.value.pc_vectors) =>
        ret.previous[1].labels = ret.out

\* two calls of cluster(2) on five samples, the global random generator in
\* another state at the second call
C19_Witness ==
    /\ ret.op = "cluster"
    /\ ret.previous # <<>>
    /\ ret.kmeans_k = 2
    /\ ret.previous[1].kmeans_k = 2
    /\ ret.previous[1].random_state # global_random_state
    /\ ret.out.ok
    /\ Len(ret.out.value) = 5

\* the positions of the support values strictly below the cutoff: the value
\* num / den is below cutoff / Unit when num * Unit < cutoff * den
BelowCutoff(support_values, cutoff) ==
    {i \in 1..Len(support_values.values) :
        support_values.values[i].num * Unit < cutoff * support_values.values[i].den}

\* C20: detect_rogue_samples(cutoff) returns exactly the samples whose
\* support value is strictly below the cutoff (0.5 by default), each with its
\* support value, indexed by sample id.
C20_RogueSamples ==
    ret.op = "detect_rogue_samples" =>
        /\ ret.out.ok
        /\ \E support_values \in {GetSampleSupportValues(comparison.self).value} :
              /\ Range(ret.out.value.index) =
                    {support_values.index[i] : i \in BelowCutoff(support_values, ret.cutoff)}
              /\ \A j \in 1..Len(ret.out.value.index) :
                    \E i \in BelowCutoff(support_values, ret.cutoff) :
                        /\ support_values.index[i] = ret.out.value.index[j]
                        /\ support_values.values[i] = ret.out.value.values[j]

\* C21: rogue detection with cutoff 1.0 never flags any sample: for every
\* compared pair of embeddings, detect_rogue_samples(1.0) returns an empty
\* result.
C21_NoRogueAtCutoffOne ==
    (ret.op = "detect_rogue_samples" /\ ret.cutoff = Unit) =>
        /\ ret.out.ok
        /\ ret.out.value.index = <<>>
        /\ ret.out.value.values = <<>>

\* the inputs of C29: unique sample ids in each input and equal n_pcs
C29_Inputs ==
    /\ UniqueIds(comparable) /\ UniqueIds(reference)
    /\ comparable.n_pcs = reference.n_pcs

\* C29 as stated: for inputs with unique sample ids and equal n_pcs the
\* 'sample IDs don't match' error of match_and_transform is unreachable, and
\* the only failure there is is the 'no samples left' error, raised for an
\* empty intersection.
C29_OnlyNoSamplesLeft ==
    (comparison.status = "raised" /\ C29_Inputs) =>
        /\ comparison.exc = "PandoraException"
        /\ comparison.why = "no_samples"
        /\ SharedIds = {}

\* C29 amended: for such inputs the 'sample IDs don't match' error is
\* unreachable; match_and_transform fails with the 'no samples left' error,
\* for an empty intersection, or with the ValueError of the Procrustes
\* analysis, when the shared samples of an input all have the same
\* coordinates, and in no other way.
C29_MismatchUnreachable ==
    (comparison.status = "raised" /\ C29_Inputs) =>
        \/ /\ comparison.exc = "PandoraException"
           /\ comparison.why = "no_samples"
           /\ SharedIds = {}
        \/ /\ comparison.exc = "ValueError"
           /\ comparison.why = "procrustes_one_point"
           /\ SharedIds # {}
           /\ \/ Cardinality(SharedPoints(comparable)) = 1
              \/ Cardinality(SharedPoints(reference)) = 1

\* match_and_transform failed on inputs with unique ids, equal n_pcs and
\* two shared samples
C29_Witness ==
    /\ C29_Inputs
    /\ comparison.status = "raised"
    /\ Cardinality(SharedIds) = 2
    /\ NSamples(comparable) = 3

\* the stability results of the Pandora object are as the constructor left
\* them: the scalars None, the tables empty
NoStabilityResult(self) ==
    /\ self.bootstrap_stability = <<>>
    /\ self.bootstrap_cluster_stability = <<>>
    /\ self.bootstrap_stabilities = <<>>
    /\ self.bootstrap_cluster_stabilities = <<>>
    /\ self.sample_support_values = <<>>

\* C22: whenever bootstrap_embeddings of a Pandora object whose dataset is
\* embedded ends with fewer than 2 bootstrap replicates, it has failed with an error about the number of replicates
\* (the InsufficientReplicatesError of the batch comparison or the
\* PandoraException for an empty list of bootstraps), and no stability
\* result attribute is set.
C22_InsufficientReplicates ==
    (/\ ret.op = "bootstrap_embeddings"
     /\ pandora_results.dataset.pca # <<>>
     /\ Len(pandora_results.bootstraps) < 2)
        => /\ ~ ret.out.ok
           /\ \/ ret.out.exc = "InsufficientReplicatesError"
              \/ ret.out = Raise("PandoraException", "no_bootstrap_replicates")
           /\ NoStabilityResult(pandora_results)

\* a pairwise cluster comparison of the running batch has been merged
ClusterPairs ==
    IF batch_comparison.status = "running"
       /\ BatchMethods[batch_comparison.method]
            \in {"compare_clustering", "get_pairwise_cluster_stabilities"}
    THEN DOMAIN batch_comparison.merged
    ELSE {}

\* C23 as stated: a configured kmeans_k is used for every pairwise cluster
\* comparison, and with kmeans_k unset the cluster count of a pair is the
\* optimal cluster count of that pair's reference.
C23_PerPairWhenUnset ==
    \A pair \in ClusterPairs :
        IF pandora_results.pandora_config.kmeans_k # <<>>
        THEN /\ batch_comparison.merged[pair].kmeans_k = pandora_results.pandora_config.kmeans_k
             /\ batch_comparison.merged[pair].k_from = <<>>
        ELSE batch_comparison.merged[pair].k_from = <<batch_comparison.merged[pair].reference>>

\* C23, amended: one kmeans_k is handed to the batch and used for every
\* pairwise cluster comparison: the configured one, or with kmeans_k unset
\* the optimal cluster count of the embedding of the original dataset,
\* determined once before any pair is compared; no pair determines its own.
C23_OneKForTheBatch ==
    /\ batch_comparison.status = "running" =>
        /\ batch_comparison.kmeans_k # <<>>
        /\ IF pandora_results.pandora_config.kmeans_k # <<>>
           THEN batch_comparison.kmeans_k = pandora_results.pandora_config.kmeans_k
           ELSE /\ pandora_results.dataset.pca # <<>>
                /\ Return(batch_comparison.kmeans_k[1])
                     \in GetOptimalKmeansK(pandora_results.dataset.pca[1])
    /\ \A pair \in ClusterPairs :
        /\ batch_comparison.merged[pair].kmeans_k = batch_comparison.kmeans_k
        /\ batch_comparison.merged[pair].k_from = <<>>

\* with kmeans_k unset, two pairwise cluster comparisons are merged
C23_Witness ==
    /\ Cardinality(ClusterPairs) >= 2
    /\ pandora_results.pandora_config.kmeans_k = <<>>

\* the pairwise results the running batch has merged
MergedPairs ==
    IF batch_comparison.status = "running" THEN DOMAIN batch_comparison.merged ELSE {}

\* C24: the batch comparison works on the embeddings of the bootstrap
\* replicates only: the batch holds exactly one embedding per bootstrap, the
\* two embeddings of every pairwise result are the embeddings of two
\* different bootstraps, and neither is the embedding of the original dataset.
C24_ReplicatesOnly ==
    /\ batch_comparison.status = "running" =>
          batch_comparison.embeddings =
             [i \in 1..Len(pandora_results.bootstraps) |-> pandora_results.bootstraps[i].pca]
    /\ \A pair \in MergedPairs :
        /\ pair[1] < pair[2]
        /\ pair[2] <= Len(pandora_results.bootstraps)
        /\ batch_comparison.merged[pair].comparable = pandora_results.bootstraps[pair[1]].pca
        /\ batch_comparison.merged[pair].reference = pandora_results.bootstraps[pair[2]].pca
        /\ <<batch_comparison.merged[pair].comparable>> # pandora_results.dataset.pca
        /\ <<batch_comparison.merged[pair].reference>> # pandora_results.dataset.pca

\* with the original dataset embedded, every pair of the similarity, of the
\* cluster comparison and of the support values has been compared
C24_Witness ==
    /\ batch_comparison.status = "running"
    /\ pandora_results.dataset.pca # <<>>
    /\ BatchMethods[batch_comparison.method] = "get_sample_support_values"
    /\ Cardinality(MergedPairs) = Cardinality(Pairs(MaxBootstraps))

\* the value of a pair is what the comparison of its two embeddings yields
\* for the method, whenever it was computed
ValueOfPair(embeddings, pair, method, kmeans_k, value) ==
    \E outcome \in PairOutcomes(embeddings, pair, method, kmeans_k) :
        outcome.ok /\ outcome.value.value = value

\* bootstrap_embeddings has returned
BootstrapEmbeddingsReturned == ret.op = "bootstrap_embeddings" /\ ret.out.ok

\* C25: whatever the order in which the pairs are compared and merged, a
\* merged result is filed under the pair it was computed from, and after
\* bootstrap_embeddings has returned the table of pairwise similarities, the
\* overall stability and the per-sample support table are the ones of the
\* replicate embeddings: the entry of every pair is the result of comparing
\* that pair, and the stability is the mean of the table.
C25_OrderIndependent ==
    /\ \A pair \in MergedPairs :
        ValueOfPair(batch_comparison.embeddings, pair,
                    BatchMethods[batch_comparison.method], batch_comparison.kmeans_k,
                    batch_comparison.merged[pair].value)
    /\ BootstrapEmbeddingsReturned =>
        /\ DOMAIN pandora_results.bootstrap_stabilities
             = Pairs(Len(pandora_results.bootstraps))
        /\ DOMAIN pandora_results.sample_support_values
             = Pairs(Len(pandora_results.bootstraps))
        /\ \A pair \in Pairs(Len(pandora_results.bootstraps)) :
            /\ ValueOfPair(BatchEmbeddings(pandora_results), pair,
                           "get_pairwise_stabilities", <<>>,
                           pandora_results.bootstrap_stabilities[pair])
            /\ ValueOfPair(BatchEmbeddings(pandora_results), pair,
                           "get_sample_support_values", <<>>,
                           pandora_results.sample_support_values[pair])
        /\ pandora_results.bootstrap_stability =
             <<MeanSimilarity([pair \in Pairs(Len(pandora_results.bootstraps)) |->
                                  [value |-> pandora_results.bootstrap_stabilities[pair]]],
                              Len(pandora_results.bootstraps))>>

\* bootstrap_embeddings has returned for replicates whose pairs do not all
\* have the same similarity
C25_Witness ==
    /\ BootstrapEmbeddingsReturned
    /\ Len(pandora_results.bootstraps) = MaxBootstraps
    /\ \E p, q \in Pairs(MaxBootstraps) :
          pandora_results.bootstrap_stabilities[p] # pandora_results.bootstrap_stabilities[q]

\* C26: until bootstrap_embeddings has been called on a Pandora object, its
\* two stabilities are None and its result tables are empty; and a call of
\* log_and_save_bootstrap_results while bootstrap_stability or
\* bootstrap_cluster_stability is None raises PandoraException and leaves
\* the result files as they were.
C26_NoResultsBeforeBootstrap ==
    /\ (/\ pandora_results.status = "ok"
        /\ called \cap {"bootstrap_embeddings", "sliding_window"} = {})
          => NoStabilityResult(pandora_results)
    /\ (/\ ret.op = "log_and_save_bootstrap_results"
        /\ \/ pandora_results.bootstrap_stability = <<>>
           \/ pandora_results.bootstrap_cluster_stability = <<>>)
          => /\ ~ ret.out.ok
             /\ ret.out.exc = "PandoraException"
             /\ result_files = ret.files_before

\* log_and_save_bootstrap_results was called with bootstrap_stability set
\* and bootstrap_cluster_stability still None
C26_Witness ==
    /\ ret.op = "log_and_save_bootstrap_results"
    /\ pandora_results.bootstrap_stability # <<>>
    /\ pandora_results.bootstrap_cluster_stability = <<>>

\* C27: once bootstrap_embeddings has returned, the Pandora object has its
\* bootstraps, both stabilities (not None), both tables of pairwise values
\* and the support values of every pair, and log_and_save_bootstrap_results
\* does not raise 'No bootstrap results to log!': a call of it that follows
\* returns.
C27_ResultsSetAfterBootstrap ==
    batch_comparison.status = "done" =>
        /\ Len(pandora_results.bootstraps) = pandora_results.pandora_config.n_bootstraps
        /\ pandora_results.bootstraps # <<>>
        /\ pandora_results.bootstrap_stability # <<>>
        /\ pandora_results.bootstrap_cluster_stability # <<>>
        /\ Pairs(Len(pandora_results.bootstraps)) # {}
        /\ DOMAIN pandora_results.bootstrap_stabilities
             = Pairs(Len(pandora_results.bootstraps))
        /\ DOMAIN pandora_results.bootstrap_cluster_stabilities
             = Pairs(Len(pandora_results.bootstraps))
        /\ DOMAIN pandora_results.sample_support_values
             = Pairs(Len(pandora_results.bootstraps))
        /\ ~ SupportValuesEmpty(pandora_results.sample_support_values)
        /\ LogAndSaveBootstrapResults(pandora_results, result_files).out.ok
        /\ ret.op \in {"log_and_save_bootstrap_results", "log_and_save_replicates_results"}
              => ret.out.ok

\* log_and_save_bootstrap_results was called after bootstrap_embeddings had
\* returned
C27_Witness ==
    /\ batch_comparison.status = "done"
    /\ ret.op = "log_and_save_bootstrap_results"

\* C28: pandora_config.loglevel returns ERROR for verbosity 0, INFO for
\* verbosity 1 and DEBUG for verbosity 2, and raises ValueError for every
\* other verbosity.
C28_Loglevel ==
    ret.op = "loglevel" =>
        IF ret.verbosity = 0 THEN ret.out = Return(LoggingERROR)
        ELSE IF ret.verbosity = 1 THEN ret.out = Return(LoggingINFO)
        ELSE IF ret.verbosity = 2 THEN ret.out = Return(LoggingDEBUG)
        ELSE ~ ret.out.ok /\ ret.out.exc = "ValueError"

\* loglevel was read for a verbosity above 2
C28_Witness ==
    /\ ret.op = "loglevel"
    /\ ret.verbosity = MaxVerbosity
    /\ ~ ret.out.ok

\* the replicate analysis of main has started
ReplicateAnalysisStarted ==
    called \cap {"bootstrap_embeddings", "sliding_window"} # {}

====
